---- MODULE Spec2Model ----
(***************************************************************************)
(* Archival (cold) storage of a blockchain node.                           *)
(*                                                                         *)
(*   core/store/src/archive/mod.rs   ArchivalStore: one storage (ColdDB or *)
(*                                   an external storage) and an optional  *)
(*                                   sync ColdDB (the mirror)              *)
(*   core/store/src/archiver.rs      Archiver / FilesystemArchiver: one    *)
(*                                   file per (column, key)                *)
(*   core/store/src/archive/gcloud.rs GoogleCloudArchiver                  *)
(*   chain/indexer/src/streamer/mod.rs the streamer loop of the indexer    *)
(*                                                                         *)
(* Byte strings are sequences of numbers 0..255.  An Option is a sequence  *)
(* of length at most one: None is <<>>, Some(x) is <<x>>.                  *)
(***************************************************************************)
EXTENDS Integers, Sequences, FiniteSets, TLC

(***************************************************************************)
(* Bounds of the model.                                                    *)
(***************************************************************************)
\* Tips (heads) are the block heights 1..MaxTip.
MaxTip == 2
\* A transaction handed to write holds at most MaxTxLen operations.
MaxTxLen == 2
\* Writes that would raise a stored refcount above MaxRc are not issued.
MaxRc == 2
\* The number of write_file calls on the one file whose steps are followed.
MaxWrites == 2
\* The length in bytes of the values written to it.
ValueLen == 2
\* The longest key handed to get_path alone.
MaxKeyLen == 2
\* Block heights are 0..MaxHeight.
MaxHeight == 3
\* The receipt of a lookup sits within MaxBeyond blocks of the start of the
\* walk or of the limit, and the chain ends MaxBeyond blocks after either.
MaxBeyond == 2

None == <<>>
Some(x) == <<x>>
IsSome(o) == Len(o) = 1
Unwrap(o) == o[1]

(***************************************************************************)
(* Fixed-width integers: i64 / u64 as 8 little-endian bytes.               *)
(***************************************************************************)
RECURSIVE LeBytes(_, _)
\* n.to_le_bytes(): \div and % round towards minus infinity, which gives the
\* two's complement bytes of a negative n.
LeBytes(n, k) == IF k = 0 THEN <<>> ELSE <<n % 256>> \o LeBytes(n \div 256, k - 1)

RECURSIVE LeValue(_, _, _)
\* The number with the little-endian digits b[i..Len(b)]; with neg, of the
\* complemented digits.
LeValue(b, i, neg) ==
    IF i > Len(b) THEN 0
    ELSE (IF neg THEN 255 - b[i] ELSE b[i]) + 256 * LeValue(b, i + 1, neg)

\* i64::from_le_bytes
I64FromLe(b) == IF b[8] >= 128 THEN 0 - (1 + LeValue(b, 1, TRUE)) ELSE LeValue(b, 1, FALSE)

(***************************************************************************)
(* Tip and its borsh encoding.  A Tip is reduced to its height, a u64.     *)
(***************************************************************************)
Tips == 1..MaxTip
BorshTip(tip) == LeBytes(tip, 8)
\* Tip::try_from_slice: Ok(tip) as Some(tip), Err as None.  borsh rejects an
\* input that is too short and one with bytes left over.
TipTryFromSlice(bytes) ==
    IF Len(bytes) = 8 /\ bytes[8] < 128 THEN Some(LeValue(bytes, 1, FALSE)) ELSE None

(***************************************************************************)
(* Values with a refcount: raw bytes followed by an i64 count.             *)
(***************************************************************************)
encode_value_with_rc(raw, rc) == raw \o LeBytes(rc, 8)

\* (Option<raw value>, refcount) as a record.
decode_value_with_rc(bytes) ==
    IF Len(bytes) < 8 THEN [raw |-> None, rc |-> 0]
    ELSE LET n == Len(bytes) - 8
             rc == I64FromLe(SubSeq(bytes, n + 1, n + 8))
         IN  IF rc > 0 THEN [raw |-> Some(SubSeq(bytes, 1, n)), rc |-> rc]
             ELSE [raw |-> None, rc |-> rc]

\* refcount_merge(existing: Option<bytes>, [operand]) -> bytes; empty means delete.
refcount_merge(existing, operand) ==
    LET e == IF IsSome(existing) THEN decode_value_with_rc(Unwrap(existing))
             ELSE [raw |-> None, rc |-> 0]
        o == decode_value_with_rc(operand)
        payload == IF IsSome(e.raw) THEN e.raw ELSE o.raw
        rc == e.rc + o.rc
    IN  IF rc <= 0 THEN <<>>
        ELSE encode_value_with_rc(IF IsSome(payload) THEN Unwrap(payload) ELSE <<>>, rc)

(***************************************************************************)
(* Columns, keys and paths.                                                *)
(***************************************************************************)
Cols == {"BlockMisc", "Block", "Receipts"}
\* DBCol::is_cold
IsCold(col) == col \in {"Block", "Receipts"}

\* b"HEAD", b"COLD_HEAD" and the receipt key b"r1"
HEAD_KEY == <<72, 69, 65, 68>>
COLD_HEAD_KEY == <<67, 79, 76, 68, 95, 72, 69, 65, 68>>
R1 == <<114, 49>>
Keys == {HEAD_KEY, COLD_HEAD_KEY, R1}

\* The (column, key) pairs the model writes and reads.
Cells == {<<"BlockMisc", HEAD_KEY>>, <<"BlockMisc", COLD_HEAD_KEY>>, <<"Receipts", R1>>}

\* bs58::Alphabet::BITCOIN
Alphabet == << "1", "2", "3", "4", "5", "6", "7", "8", "9",
               "A", "B", "C", "D", "E", "F", "G", "H", "J", "K", "L", "M", "N",
               "P", "Q", "R", "S", "T", "U", "V", "W", "X", "Y", "Z",
               "a", "b", "c", "d", "e", "f", "g", "h", "i", "j", "k", "m", "n",
               "o", "p", "q", "r", "s", "t", "u", "v", "w", "x", "y", "z" >>

RECURSIVE Bs58Carry(_, _, _)
\* One input byte folded into the base-58 digits (least significant first):
\* digit i becomes (carry + digit * 256) % 58, the rest is carried on.
Bs58Carry(digits, i, carry) ==
    IF i > Len(digits)
    THEN IF carry = 0 THEN digits
         ELSE Bs58Carry(Append(digits, carry % 58), i + 1, carry \div 58)
    ELSE LET c == carry + digits[i] * 256
         IN  Bs58Carry([digits EXCEPT ![i] = c % 58], i + 1, c \div 58)

RECURSIVE Bs58Digits(_, _, _)
Bs58Digits(key, i, digits) ==
    IF i > Len(key) THEN digits
    ELSE Bs58Digits(key, i + 1, Bs58Carry(digits, 1, key[i]))

RECURSIVE LeadingZeros(_, _)
LeadingZeros(key, i) ==
    IF i > Len(key) \/ key[i] # 0 THEN 0 ELSE 1 + LeadingZeros(key, i + 1)

\* The encoding without a "1" for a leading zero byte: the number alone.
Bs58Number(key) ==
    LET digits == Bs58Digits(key, 1, <<>>)
        n == Len(digits)
    IN  [i \in 1..n |-> Alphabet[digits[n - i + 1] + 1]]

\* bs58::encode(key).with_alphabet(BITCOIN).into_string(), as a sequence of
\* one-character strings: one "1" per leading zero byte, then the digits of
\* the key read as a big-endian number, most significant first.
Bs58Encode(key) ==
    LET digits == Bs58Digits(key, 1, <<>>)
        n == Len(digits)
        z == LeadingZeros(key, 1)
    IN  [i \in 1..(z + n) |->
            IF i <= z THEN Alphabet[1] ELSE Alphabet[digits[n - (i - z) + 1] + 1]]

\* The directory name of a column: the match arms of cold_column_dirname.
ColumnDirName(col) ==
    CASE col = "BlockMisc" -> "BlockMisc"
      [] col = "Block" -> "Block"
      [] col = "Receipts" -> "Receipts"
      [] OTHER -> ""

\* ArchivalStore.column_to_path: the table ArchivalStore::new is given, one
\* entry for every cold column and for BlockMisc.
column_to_path == [col \in {c \in Cols : IsCold(c) \/ c = "BlockMisc"} |-> ColumnDirName(col)]

\* FilesystemArchiver.col_to_dir: setup_dirs makes one entry per cold column.
col_to_dir == [col \in {c \in Cols : IsCold(c)} |-> col]

\* The file name of each key of the model: its base-58 text.
FileName == [k \in Keys |-> Bs58Encode(k)]

\* [dirname, filename].into_iter().collect(): the components of the PathBuf;
\* an empty file name adds none.
PathBuf(dirname, filename) ==
    IF filename = <<>> THEN <<dirname>> ELSE <<dirname, filename>>

\* get_path of either design on any key: the entry of the column in table
\* joined with the base-58 text of the key; None stands for the panic on a
\* column with no entry.
path_of(table, col, key) ==
    IF col \in DOMAIN table THEN Some(PathBuf(table[col], Bs58Encode(key))) ELSE None

\* ArchivalStore::get_path; None stands for the panic on a column with no entry.
get_path(col, key) ==
    IF col \in DOMAIN column_to_path
    THEN Some(<<column_to_path[col], FileName[key]>>)
    ELSE None

\* FilesystemArchiver::get_path; None stands for the unwrap of a missing entry.
fs_get_path(col, key) ==
    IF col \in DOMAIN col_to_dir
    THEN Some(<<col_to_dir[col], FileName[key]>>)
    ELSE None

Paths == {<<ColumnDirName(c[1]), FileName[c[2]]>> : c \in Cells}
HeadPath == Unwrap(get_path("BlockMisc", HEAD_KEY))
ColdHeadPath == Unwrap(get_path("BlockMisc", COLD_HEAD_KEY))
R1Path == Unwrap(get_path("Receipts", R1))

(***************************************************************************)
(* Transactions: DBTransaction.ops, a sequence of DBOp.                    *)
(***************************************************************************)
DBOp(kind, col, key, value) == [kind |-> kind, col |-> col, key |-> key, value |-> value]

\* A receipt payload with refcount 1, and the bare refcount operands.
Payload == <<7>>
V1 == encode_value_with_rc(Payload, 1)
RcDelta(d) == LeBytes(d, 8)
\* Bytes that are no borsh encoding of a Tip.
Garbage == <<9>>

DeleteKinds == {"Delete", "DeleteAll", "DeleteRange"}

SetOps == { DBOp("Set", "BlockMisc", HEAD_KEY, Garbage), DBOp("Set", "Receipts", R1, V1) }
UpdateOps == {DBOp("UpdateRefcount", "Receipts", R1, v) :
                v \in {V1, RcDelta(1), RcDelta(-1), RcDelta(-2)}}
DeleteOps == {DBOp(k, "Receipts", R1, <<>>) : k \in DeleteKinds}
Ops == SetOps \cup {DBOp("Insert", "Receipts", R1, V1)} \cup UpdateOps \cup DeleteOps

\* The operations a transaction of Ops may hold after its first one.
TailOps == { DBOp("Set", "Receipts", R1, V1),
             DBOp("UpdateRefcount", "Receipts", R1, RcDelta(-1)),
             DBOp("Delete", "Receipts", R1, <<>>) }

RECURSIVE TxsOfLen(_, _, _)
\* The transactions of n operations: the first of first, the others of rest.
TxsOfLen(n, first, rest) ==
    IF n = 1 THEN {<<o>> : o \in first}
    ELSE {Append(t, o) : t \in TxsOfLen(n - 1, first, rest), o \in rest}

\* The transactions of Set operations, and the transactions of every kind of
\* operation, of at most MaxTxLen operations.
SetTxs == UNION {TxsOfLen(n, SetOps, SetOps) : n \in 1..MaxTxLen}
Txs == UNION {TxsOfLen(n, Ops, TailOps) : n \in 1..MaxTxLen}

\* set_head_tx without the Set of COLD_HEAD_KEY.
set_head_tx_head_only(tip) ==
    << DBOp("Set", "BlockMisc", HEAD_KEY, BorshTip(tip)) >>

\* set_head_tx without the Set of HEAD_KEY.
set_head_tx_cold_only(tip) ==
    << DBOp("Set", "BlockMisc", COLD_HEAD_KEY, BorshTip(tip)) >>

\* set_head_tx: HEAD_KEY and COLD_HEAD_KEY both set to the borsh bytes of tip.
set_head_tx(tip) ==
    << DBOp("Set", "BlockMisc", HEAD_KEY, BorshTip(tip)),
       DBOp("Set", "BlockMisc", COLD_HEAD_KEY, BorshTip(tip)) >>

(***************************************************************************)
(* The ColdDB: the embedded engine's transactional write and point lookup. *)
(***************************************************************************)
CellOf(op) == <<op.col, op.key>>

\* One operation applied to the contents db.
ColdDbApply(db, op) ==
    CASE op.kind \in {"Set", "Insert"} -> [db EXCEPT ![CellOf(op)] = Some(op.value)]
      [] op.kind = "UpdateRefcount" ->
            LET merged == refcount_merge(db[CellOf(op)], op.value)
            IN  [db EXCEPT ![CellOf(op)] = IF merged = <<>> THEN None ELSE Some(merged)]
      [] OTHER -> db

\* The operations an archival ColdDB refuses with a fatal fault: the deletes.
ColdDbFault(op) == op.kind \in DeleteKinds

RECURSIVE ColdDbWrite(_, _)
\* ColdDB::write(tx): all of tx or, on a fault, nothing.
ColdDbWrite(db, tx) ==
    IF tx = <<>> THEN [db |-> db, fault |-> FALSE]
    ELSE IF ColdDbFault(Head(tx)) THEN [db |-> db, fault |-> TRUE]
    ELSE LET w == ColdDbWrite(ColdDbApply(db, Head(tx)), Tail(tx))
         IN  IF w.fault THEN [db |-> db, fault |-> TRUE] ELSE w

\* ColdDB::get_raw_bytes
ColdDbGet(db, col, key) == db[<<col, key>>]

(***************************************************************************)
(* The external storage behind the ExternalStorage trait: the value put at *)
(* a path is what get returns for that path.                               *)
(***************************************************************************)
ExtPut(store, path, value) == [store EXCEPT ![path] = Some(value)]
ExtGet(store, path) == store[path]

\* The refcount stored in an optional value of a refcounted column.
RcOf(o) == IF IsSome(o) THEN decode_value_with_rc(Unwrap(o)).rc ELSE 0

RECURSIVE NumIncr(_)
\* The number of operations of tx that raise a refcount.
NumIncr(tx) ==
    IF tx = <<>> THEN 0
    ELSE (IF Head(tx).kind = "UpdateRefcount" /\ decode_value_with_rc(Head(tx).value).rc > 0
          THEN 1 ELSE 0) + NumIncr(Tail(tx))

(***************************************************************************)
(* State.                                                                  *)
(***************************************************************************)
(***************************************************************************)
(* One file of the archive directory at the grain of the system calls of   *)
(* write_file and read_file.  The directory entry of the file names an     *)
(* inode or is absent; an open file descriptor names the inode it was      *)
(* opened on.  Inode 0 is the file that exists at the start, inode i the   *)
(* i-th file created.                                                      *)
(***************************************************************************)
Inodes == 0..MaxWrites
FileValues == {[i \in 1..ValueLen |-> b] : b \in {1, 2}}

NoWrite == [pc |-> "idle", id |-> 0, value |-> <<>>, before |-> None]
NoRead == [pc |-> "idle", fd |-> 0, seen |-> <<>>, result |-> None]

\* The directory with entry target (an Option of an inode) and bytes in inode 0.
NoFiles(target, bytes) ==
    [ target |-> target, data |-> [i \in Inodes |-> IF i = 0 THEN bytes ELSE <<>>],
      created |-> 0, w |-> NoWrite, r |-> NoRead ]

\* The bytes read under the name of the file, None if there is no such file.
Committed(f) == IF IsSome(f.target) THEN Some(f.data[Unwrap(f.target)]) ELSE None

\* write_file that opens the file of (col, key) itself with CREATE | TRUNC.
create_in_place(f, value) ==
    [f EXCEPT !.created = @ + 1,
              !.data[f.created + 1] = <<>>,
              !.target = Some(f.created + 1),
              !.w = [pc |-> "writing", id |-> f.created + 1, value |-> value,
                     before |-> Committed(f)]]

\* write_file, lines 156-162: a temporary file is created, empty, under a
\* name of its own in the base directory.
temp_create(f, value) ==
    [f EXCEPT !.created = @ + 1,
              !.data[f.created + 1] = <<>>,
              !.w = [pc |-> "writing", id |-> f.created + 1, value |-> value,
                     before |-> Committed(f)]]

\* write_file, line 164: write_all, one byte of the value at a time.
write_all_step(f) ==
    [f EXCEPT !.data[f.w.id] = Append(@, f.w.value[Len(@) + 1])]

\* write_file, line 168: renameat of the temporary file to the file of (col, key).
renameat(f) == [f EXCEPT !.target = Some(f.w.id), !.w = NoWrite]

\* A failed write_file that still renames what it has written so far.
write_interrupted_renames(f) == [f EXCEPT !.target = Some(f.w.id), !.w.pc = "failed"]

\* A failure in write_file, which is unwrapped: the writer ends where it is.
write_interrupted(f) == [f EXCEPT !.w.pc = "failed"]

\* read_file, lines 178-183: openat; NOENT returns Ok(None).
openat(f) ==
    IF IsSome(f.target)
    THEN [f EXCEPT !.r = [pc |-> "opened", fd |-> Unwrap(f.target),
                          seen |-> f.data[Unwrap(f.target)], result |-> None]]
    ELSE [f EXCEPT !.r = [NoRead EXCEPT !.result = Some(None)]]

\* read_file, lines 184-188: fstat and read_to_end of the open file.
read_to_end(f) ==
    [f EXCEPT !.r = [pc |-> "idle", fd |-> 0, seen |-> f.r.seen,
                     result |-> Some(Some(f.data[f.r.fd]))]]

VARIABLES
    design,     \* "ArchivalStore" (archive/mod.rs) or "Archiver" (archiver.rs)
    storage,    \* ArchivalStore.storage: "ColdDB" or "External"; the Archiver's: "Filesystem"
    mirror,     \* ArchivalStore.sync_cold_db is Some
    debug,      \* the build has debug assertions
    cold,       \* the ColdDB: cell -> Option<bytes>
    ext,        \* the external storage, or the archive directory: path -> Option<bytes>
    pc,         \* "idle", "external" (in write_to_external), "fs" (in
                \* FilesystemArchiver::write) or "aborted" (the process panicked)
    cur,        \* the public call in progress: [op, arg, set]
    ops,        \* the operations of its transaction still to apply
    last,       \* the call that returned last: [op, arg, res, val, io]; io: a
                \* store returned an I/O error to it
    m3,         \* how many transactions of Scenario3 made up the writes so far
    m4,         \* how many transactions of Scenario4 made up the writes so far
    fs,         \* one file of the archive directory, step by step: [target, data,
                \* created, w, r]
    dirs,       \* the directories that exist under the home directory
    streamer,   \* the indexer's streamer (chain/indexer/src/streamer/mod.rs): [pc,
                \* last_synced_block_height, db, sync_mode, block_height,
                \* latest_block_height, sent]
    lookup      \* lookup_delayed_local_receipt_in_previous_blocks: [pc,
                \* prev_block_tried, prev_block_hash, examined, holders, blocks,
                \* result, msg]

vars == <<design, storage, mirror, debug, cold, ext, pc, cur, ops, last, m3, m4, fs, dirs,
          streamer, lookup>>
config == <<design, storage, mirror, debug>>

NoCall == [op |-> "none", arg |-> <<>>, set |-> None]
Call(op, arg, set) == [op |-> op, arg |-> arg, set |-> set]
Ret(op, arg, res, val, io) == [op |-> op, arg |-> arg, res |-> res, val |-> val, io |-> io]

\* The heads a store may hold when it is opened.
InitHeads == {None} \cup {Some(BorshTip(t)) : t \in Tips}

\* A ColdDB or external store in which an earlier set_head wrote head.
WithHead(cells, head) == [c \in cells |->
    IF c \in {<<"BlockMisc", HEAD_KEY>>, <<"BlockMisc", COLD_HEAD_KEY>>, HeadPath, ColdHeadPath}
    THEN head ELSE None]

\* ArchivalStoreOpener::open: the ColdDB is the storage, or it is the mirror of
\* an external storage, or there is none.  A store that is not configured is
\* left empty.  Nothing in the ArchivalStore depends on the build.
InitArchivalStore ==
    /\ design = "ArchivalStore"
    /\ debug = FALSE
    /\ \/ /\ storage = "ColdDB" /\ mirror = FALSE
          /\ \E h \in InitHeads : cold = WithHead(Cells, h)
          /\ ext = WithHead(Paths, None)
       \/ /\ storage = "External" /\ mirror = TRUE
          /\ \E h \in InitHeads : cold = WithHead(Cells, h)
          /\ \E h \in InitHeads : ext = WithHead(Paths, h)
       \/ /\ storage = "External" /\ mirror = FALSE
          /\ cold = WithHead(Cells, None)
          /\ \E h \in InitHeads : ext = WithHead(Paths, h)

\* ArchivalStorageOpener::open with a Filesystem location:
\* FilesystemArchiver::open creates every column directory anew.
InitArchiver ==
    /\ design = "Archiver"
    /\ debug \in BOOLEAN
    /\ storage = "Filesystem" /\ mirror = FALSE
    /\ \E h \in InitHeads : cold = WithHead(Cells, h)
    /\ ext = WithHead(Paths, None)

\* The base directory of the archive, and with it the directory of every
\* cold column: what setup_dirs has made when FilesystemArchiver::open returns.
BaseDir == "."
OpenedDirs == {BaseDir} \cup {c \in Cols : IsCold(c)}

\* No streamer is started.
NoStreamer ==
    [ pc |-> "none", last_synced_block_height |-> None, db |-> None,
      sync_mode |-> [kind |-> "none", height |-> 0],
      block_height |-> 0, latest_block_height |-> 0, sent |-> <<>> ]

\* No lookup is in progress.
NoLookup ==
    [ pc |-> "none", prev_block_tried |-> 0, prev_block_hash |-> 0, examined |-> 0,
      holders |-> {}, blocks |-> 0, result |-> [res |-> "none", val |-> None],
      msg |-> "" ]

InitIdle ==
    /\ streamer = NoStreamer
    /\ lookup = NoLookup
    /\ dirs = (IF design = "Archiver" THEN OpenedDirs ELSE {})
    /\ pc = "idle"
    /\ cur = NoCall
    /\ ops = <<>>
    /\ last = Ret("none", <<>>, "none", None, FALSE)
    /\ m3 = 0
    /\ m4 = 0

InitCalls == InitIdle /\ fs = NoFiles(None, <<>>)

(***************************************************************************)
(* The two scenarios of transactions on the receipt key.                   *)
(***************************************************************************)
Update(v) == <<DBOp("UpdateRefcount", "Receipts", R1, v)>>
Scenario3 == << Update(V1), Update(RcDelta(1)),
                Update(RcDelta(-1)), Update(RcDelta(-1)), Update(RcDelta(-1)) >>
Scenario4 == << <<DBOp("Insert", "Receipts", R1, V1)>>, Update(RcDelta(1)), Update(RcDelta(-2)) >>

\* A monitor that left its scenario.
Off == 0 - 1
\* The monitor m of scenario after a write of tx.
Advance(m, scenario, tx) ==
    IF m >= 0 /\ m < Len(scenario) /\ tx = scenario[m + 1] THEN m + 1 ELSE Off

\* The monitors when a write of tx starts; failed: a store returns an I/O
\* error under it, which no scenario covers.
MonCall(tx, failed) ==
    /\ m3' = IF failed THEN Off ELSE Advance(m3, Scenario3, tx)
    /\ m4' = IF failed THEN Off ELSE Advance(m4, Scenario4, tx)
\* The monitors at a later step of the write.
MonStep(failed) ==
    IF failed THEN m3' = Off /\ m4' = Off ELSE UNCHANGED <<m3, m4>>

(***************************************************************************)
(* Heads.                                                                  *)
(***************************************************************************)
Ok(val) == [res |-> "ok", val |-> val]
Err == [res |-> "err", val |-> None]
Panic == [res |-> "panic", val |-> None]

\* The optional head bytes decoded: Option<bytes>.map(Tip::try_from_slice).transpose()
DecodeHead(raw) ==
    IF ~IsSome(raw) THEN Ok(None)
    ELSE LET t == TipTryFromSlice(Unwrap(raw))
         IN  IF IsSome(t) THEN Ok(t) ELSE Err

\* get_cold_head(cold_db); fail: the ColdDB read returns an error.
get_cold_head(db, fail) ==
    IF fail THEN Err ELSE DecodeHead(ColdDbGet(db, "BlockMisc", HEAD_KEY))

\* ArchivalStore::get_external_head; fail: storage.get returns an error.
get_external_head(store, fail) ==
    LET path == get_path("BlockMisc", HEAD_KEY)
    IN  IF ~IsSome(path) THEN Panic
        ELSE IF fail THEN Err
        ELSE DecodeHead(ExtGet(store, Unwrap(path)))

\* get_head without the assert_eq of the two heads.
get_head_unchecked(extFail, coldFail) ==
    IF storage = "ColdDB" THEN get_cold_head(cold, coldFail)
    ELSE LET external_head == get_external_head(ext, extFail)
         IN  IF external_head.res # "ok" \/ ~mirror THEN external_head
             ELSE LET cold_head == get_cold_head(cold, coldFail)
                  IN  IF cold_head.res # "ok" THEN cold_head ELSE external_head

\* ArchivalStore::get_head
get_head(extFail, coldFail) ==
    IF storage = "ColdDB" THEN get_cold_head(cold, coldFail)
    ELSE LET external_head == get_external_head(ext, extFail)
         IN  IF external_head.res # "ok" THEN external_head
             ELSE IF mirror
             THEN LET cold_head == get_cold_head(cold, coldFail)
                  IN  IF cold_head.res # "ok" THEN cold_head
                      ELSE IF cold_head.val # external_head.val THEN Panic
                      ELSE external_head
             ELSE external_head

PcAfter(res) == IF res = "panic" THEN "aborted" ELSE "idle"

\* The I/O errors a call may meet: of the ColdDB if one is configured, of the
\* external storage if that is the storage.
ColdDbFails == IF storage = "ColdDB" \/ mirror THEN BOOLEAN ELSE {FALSE}
ExtFails == IF storage = "External" THEN BOOLEAN ELSE {FALSE}

GetHead ==
    /\ pc = "idle" /\ design = "ArchivalStore"
    /\ \E extFail \in ExtFails, coldFail \in ColdDbFails :
          LET r == get_head(extFail, coldFail)
          IN  /\ last' = Ret("get_head", <<>>, r.res, r.val, extFail \/ coldFail)
              /\ pc' = PcAfter(r.res)
              /\ MonStep(extFail \/ coldFail)
    /\ UNCHANGED <<config, fs, dirs, streamer, lookup, cold, ext, cur, ops>>

(***************************************************************************)
(* ArchivalStore::write and set_head.                                      *)
(***************************************************************************)
\* The Set a transaction of one Set operation consists of.
SingleSet(tx) == IF Len(tx) = 1 /\ tx[1].kind = "Set" THEN Some(tx[1]) ELSE None

\* The call op(arg) returns res; a write that returns Ok reports its single Set.
Return(op, arg, set, res, io) ==
    /\ last' = Ret(op, arg, res, IF res = "ok" THEN set ELSE None, io)
    /\ pc' = PcAfter(res)
    /\ cur' = NoCall
    /\ ops' = <<>>

\* write with an external storage going to write_to_external at once, the
\* sync ColdDB left as it was entered.
WriteFrom_external_only(op, arg, tx, db, fail) ==
    /\ storage = "External"
    /\ cold' = db
    /\ IF tx = <<>> THEN Return(op, arg, None, "ok", FALSE)
       ELSE /\ pc' = "external"
            /\ cur' = Call(op, arg, SingleSet(tx))
            /\ ops' = tx
            /\ last' = Ret(op, arg, "running", None, FALSE)

\* write with the result of the write to the sync ColdDB unwrapped.
WriteFrom_unwraps(op, arg, tx, db, fail) ==
    IF storage = "ColdDB"
    THEN IF fail THEN cold' = db /\ Return(op, arg, None, "err", TRUE)
         ELSE LET w == ColdDbWrite(db, tx)
              IN  /\ cold' = w.db
                  /\ Return(op, arg, SingleSet(tx), IF w.fault THEN "panic" ELSE "ok", FALSE)
    ELSE IF mirror /\ fail THEN cold' = db /\ Return(op, arg, None, "panic", TRUE)
    ELSE LET w == IF mirror THEN ColdDbWrite(db, tx) ELSE [db |-> db, fault |-> FALSE]
         IN  /\ cold' = w.db
             /\ IF w.fault THEN Return(op, arg, None, "panic", FALSE)
                ELSE IF tx = <<>> THEN Return(op, arg, None, "ok", FALSE)
                ELSE /\ pc' = "external"
                     /\ cur' = Call(op, arg, SingleSet(tx))
                     /\ ops' = tx
                     /\ last' = Ret(op, arg, "running", None, FALSE)

\* ArchivalStore::write(tx), entered with the ColdDB holding db; fail: the
\* ColdDB write returns an error.  With an external storage the call goes on
\* in write_to_external.
WriteFrom(op, arg, tx, db, fail) ==
    IF storage = "ColdDB"
    THEN IF fail THEN cold' = db /\ Return(op, arg, None, "err", TRUE)
         ELSE LET w == ColdDbWrite(db, tx)
              IN  /\ cold' = w.db
                  /\ Return(op, arg, SingleSet(tx), IF w.fault THEN "panic" ELSE "ok", FALSE)
    ELSE IF mirror /\ fail THEN cold' = db /\ Return(op, arg, None, "err", TRUE)
    ELSE LET w == IF mirror THEN ColdDbWrite(db, tx) ELSE [db |-> db, fault |-> FALSE]
         IN  /\ cold' = w.db
             /\ IF w.fault THEN Return(op, arg, None, "panic", FALSE)
                ELSE IF tx = <<>> THEN Return(op, arg, None, "ok", FALSE)
                ELSE /\ pc' = "external"
                     /\ cur' = Call(op, arg, SingleSet(tx))
                     /\ ops' = tx
                     /\ last' = Ret(op, arg, "running", None, FALSE)

\* ArchivalStore::write(tx), tx drawn from txs.
WriteTx(txs) ==
    /\ pc = "idle" /\ design = "ArchivalStore"
    /\ \E tx \in txs, fail \in ColdDbFails :
          /\ (storage = "ColdDB" \/ mirror) =>
                RcOf(cold[<<"Receipts", R1>>]) + NumIncr(tx) <= MaxRc
          /\ WriteFrom("write", <<>>, tx, cold, fail)
          /\ MonCall(tx, fail)
    /\ UNCHANGED <<config, fs, dirs, streamer, lookup, ext>>

Write == WriteTx(SetTxs)
WriteRc == WriteTx(Txs)

\* ArchivalStore::set_head(tip); fail1: the write of the head to the sync
\* ColdDB returns an error, fail2: the ColdDB write inside write does.
SetHead ==
    /\ pc = "idle" /\ design = "ArchivalStore"
    /\ \E tip \in Tips, fail1 \in (IF mirror THEN BOOLEAN ELSE {FALSE}), fail2 \in ColdDbFails :
          LET tx == set_head_tx(tip)
          IN  /\ IF mirror /\ fail1
                 THEN /\ Return("set_head", <<tip>>, None, "err", TRUE)
                      /\ UNCHANGED cold
                 ELSE WriteFrom("set_head", <<tip>>, tx,
                                IF mirror THEN ColdDbWrite(cold, tx).db ELSE cold, fail2)
              /\ MonCall(tx, fail1 \/ fail2)
    /\ UNCHANGED <<config, fs, dirs, streamer, lookup, ext>>

\* The filter_map with the key of a Set handed on in place of its value.
external_op_key(op) ==
    IF op.kind = "Set" THEN [res |-> "put", value |-> op.key]
    ELSE [res |-> "panic", value |-> <<>>]

\* One operation through the filter_map of write_to_external: the value to
\* put, or a panic.
external_op(op) ==
    CASE op.kind = "Set" -> [res |-> "put", value |-> op.value]
      [] op.kind = "UpdateRefcount" ->
            LET d == decode_value_with_rc(op.value)
            IN  IF ~IsSome(d.raw) \/ d.rc # 1 THEN [res |-> "panic", value |-> <<>>]
                ELSE [res |-> "put", value |-> op.value]
      [] OTHER -> [res |-> "panic", value |-> <<>>]

\* write_to_external that goes on with the next operation when a put fails,
\* and returns the error of the last put only.
ExternalStep_skips_failed ==
    /\ pc = "external"
    /\ LET op == Head(ops)
           a == external_op(op)
           path == get_path(op.col, op.key)
       IN  IF a.res = "panic" \/ ~IsSome(path)
           THEN Return(cur.op, cur.arg, None, "panic", FALSE) /\ UNCHANGED <<ext, m3, m4>>
           ELSE \E fail \in BOOLEAN :
                   /\ MonStep(fail)
                   /\ ext' = (IF fail THEN ext ELSE ExtPut(ext, Unwrap(path), a.value))
                   /\ IF Tail(ops) = <<>>
                      THEN Return(cur.op, cur.arg, cur.set, IF fail THEN "err" ELSE "ok", fail)
                      ELSE /\ ops' = Tail(ops)
                           /\ UNCHANGED <<pc, cur, last>>
    /\ UNCHANGED <<config, fs, dirs, streamer, lookup, cold>>

\* write_to_external, one operation at a time: the iterator is lazy, so an
\* operation is matched when its turn comes and then put; the first put that
\* fails ends the call.
ExternalStep ==
    /\ pc = "external"
    /\ LET op == Head(ops)
           a == external_op(op)
           path == get_path(op.col, op.key)
       IN  IF a.res = "panic" \/ ~IsSome(path)
           THEN Return(cur.op, cur.arg, None, "panic", FALSE) /\ UNCHANGED <<ext, m3, m4>>
           ELSE \E fail \in BOOLEAN :
                   /\ MonStep(fail)
                   /\ IF fail
                      THEN Return(cur.op, cur.arg, None, "err", TRUE) /\ UNCHANGED ext
                      ELSE /\ ext' = ExtPut(ext, Unwrap(path), a.value)
                           /\ IF Tail(ops) = <<>>
                              THEN Return(cur.op, cur.arg, cur.set, "ok", FALSE)
                              ELSE /\ ops' = Tail(ops)
                                   /\ UNCHANGED <<pc, cur, last>>
    /\ UNCHANGED <<config, fs, dirs, streamer, lookup, cold>>

(***************************************************************************)
(* ArchivalStore::try_sync_cold_head.                                      *)
(***************************************************************************)
Done(res) == [res |-> res, tx |-> <<>>]
Push(tip) == [res |-> "write", tx |-> set_head_tx(tip)]

\* sync_heads with the else branch that writes left out.
sync_heads_no_push(cold_head, external_head) ==
    IF ~IsSome(cold_head) THEN Done(IF IsSome(external_head) THEN "panic" ELSE "ok")
    ELSE IF IsSome(external_head) /\ cold_head # external_head THEN Done("panic")
    ELSE Done("ok")

\* sync_heads that writes the ColdDB head whenever there is one.
sync_heads_always_push(cold_head, external_head) ==
    IF ~IsSome(cold_head) THEN Done(IF IsSome(external_head) THEN "panic" ELSE "ok")
    ELSE IF IsSome(external_head) /\ cold_head # external_head THEN Done("panic")
    ELSE Push(Unwrap(cold_head))

\* sync_heads that settles two unequal heads by writing the ColdDB head.
sync_heads_cold_wins(cold_head, external_head) ==
    IF ~IsSome(cold_head) THEN Done(IF IsSome(external_head) THEN "panic" ELSE "ok")
    ELSE IF IsSome(external_head) /\ cold_head = external_head THEN Done("ok")
    ELSE Push(Unwrap(cold_head))

\* sync_heads without the assert on an unset ColdDB head.
sync_heads_unset_ok(cold_head, external_head) ==
    IF ~IsSome(cold_head) THEN Done("ok")
    ELSE IF IsSome(external_head)
    THEN Done(IF cold_head # external_head THEN "panic" ELSE "ok")
    ELSE Push(Unwrap(cold_head))

\* try_sync_cold_head once both heads are read (lines 163-181): return, panic,
\* or write the ColdDB head to the external storage.
sync_heads(cold_head, external_head) ==
    IF ~IsSome(cold_head) THEN Done(IF IsSome(external_head) THEN "panic" ELSE "ok")
    ELSE IF IsSome(external_head)
    THEN Done(IF cold_head # external_head THEN "panic" ELSE "ok")
    ELSE Push(Unwrap(cold_head))

\* try_sync_cold_head up to the write; coldFail, extFail: the read of the
\* ColdDB head, of the external head, returns an error.
try_sync_cold_head(coldFail, extFail) ==
    IF ~mirror THEN Done("ok")
    ELSE IF storage # "External" THEN Done("ok")
    ELSE LET cold_head == get_cold_head(cold, coldFail)
             external_head == get_external_head(ext, extFail)
         IN  IF cold_head.res # "ok" THEN Done(cold_head.res)
             ELSE IF external_head.res # "ok" THEN Done(external_head.res)
             ELSE sync_heads(cold_head.val, external_head.val)

TrySyncColdHead ==
    /\ pc = "idle" /\ design = "ArchivalStore"
    /\ \E coldFail \in (IF mirror /\ storage = "External" THEN BOOLEAN ELSE {FALSE}),
          extFail \in (IF mirror /\ storage = "External" THEN BOOLEAN ELSE {FALSE}) :
          LET r == try_sync_cold_head(coldFail, extFail)
          IN  IF r.res = "write"
              THEN /\ pc' = "external"
                   /\ cur' = Call("try_sync_cold_head", <<>>, None)
                   /\ ops' = r.tx
                   /\ last' = Ret("try_sync_cold_head", <<>>, "running", None, FALSE)
                   /\ MonCall(r.tx, FALSE)
              ELSE /\ last' = Ret("try_sync_cold_head", <<>>, r.res, None, coldFail \/ extFail)
                   /\ pc' = PcAfter(r.res)
                   /\ MonStep(coldFail \/ extFail)
                   /\ UNCHANGED <<cur, ops>>
    /\ UNCHANGED <<config, fs, dirs, streamer, lookup, cold, ext>>

(***************************************************************************)
(* ArchivalStore::read.                                                    *)
(***************************************************************************)
\* read(col, key); fail: the lookup returns an error.
read(col, key, fail) ==
    IF storage = "ColdDB"
    THEN IF fail THEN Err ELSE Ok(ColdDbGet(cold, col, key))
    ELSE LET path == get_path(col, key)
         IN  IF ~IsSome(path) THEN Panic
             ELSE IF fail THEN Err
             ELSE Ok(ExtGet(ext, Unwrap(path)))

Read ==
    /\ pc = "idle" /\ design = "ArchivalStore"
    /\ \E c \in Cells, fail \in BOOLEAN :
          LET r == read(c[1], c[2], fail)
          IN  /\ last' = Ret("read", c, r.res, r.val, fail)
              /\ pc' = PcAfter(r.res)
              /\ MonStep(fail)
    /\ UNCHANGED <<config, fs, dirs, streamer, lookup, cold, ext, cur, ops>>

(***************************************************************************)
(* FilesystemArchiver (archiver.rs).  An I/O failure is one of             *)
(*   "open"   openat of the file to read fails, not with NOENT             *)
(*   "read"   fstat or read_to_end of the opened file fails                *)
(*   "write"  creating, writing or renaming the temporary file fails, or   *)
(*            unlinkat fails                                               *)
(***************************************************************************)
IoFailures == {"none", "open", "read", "write"}

\* write_file: the value written to a temporary file that is renamed to the
\* file of (col, key); every failure in it is unwrapped.
write_file(files, col, key, value, fail) ==
    LET path == fs_get_path(col, key)
    IN  IF fail = "write" \/ ~IsSome(path) THEN [res |-> "panic", files |-> files]
        ELSE [res |-> "ok", files |-> [files EXCEPT ![Unwrap(path)] = Some(value)]]

\* read_file: None for a file that does not exist.
read_file(files, col, key, fail) ==
    LET path == fs_get_path(col, key)
    IN  IF ~IsSome(path) THEN Panic
        ELSE IF fail = "open" THEN Err
        ELSE IF ~IsSome(files[Unwrap(path)]) THEN Ok(None)
        ELSE IF fail = "read" THEN Panic
        ELSE Ok(files[Unwrap(path)])

\* delete_file that empties the file and leaves it in the directory.
delete_file_truncates(files, col, key, fail) ==
    LET path == fs_get_path(col, key)
    IN  IF ~IsSome(path) THEN [res |-> "panic", files |-> files]
        ELSE IF fail = "write" \/ ~IsSome(files[Unwrap(path)])
        THEN [res |-> "err", files |-> files]
        ELSE [res |-> "ok", files |-> [files EXCEPT ![Unwrap(path)] = Some(<<>>)]]

\* delete_file: unlinkat, which fails on a file that does not exist.
delete_file(files, col, key, fail) ==
    LET path == fs_get_path(col, key)
    IN  IF ~IsSome(path) THEN [res |-> "panic", files |-> files]
        ELSE IF fail = "write" \/ ~IsSome(files[Unwrap(path)])
        THEN [res |-> "err", files |-> files]
        ELSE [res |-> "ok", files |-> [files EXCEPT ![Unwrap(path)] = None]]

\* The Insert arm without the read and the assert, in every build.
fs_insert_unchecked(files, op, dbg, fail) ==
    write_file(files, op.col, op.key, op.value, fail)

\* The Insert arm of FilesystemArchiver::write.
fs_insert(files, op, dbg, fail) ==
    LET old == read_file(files, op.col, op.key, fail)
    IN  IF dbg /\ old.res # "ok" THEN [res |-> old.res, files |-> files]
        ELSE IF dbg /\ IsSome(old.val) /\ Unwrap(old.val) # op.value
        THEN [res |-> "panic", files |-> files]
        ELSE write_file(files, op.col, op.key, op.value, fail)

\* The UpdateRefcount arm merging the operand with nothing: the file is not read.
fs_update_refcount_no_read(files, op, dbg, fail) ==
    LET merged == refcount_merge(None, op.value)
    IN  IF merged = <<>>
        THEN LET d == delete_file(files, op.col, op.key, fail)
             IN  IF d.res # "ok" THEN [res |-> "panic", files |-> files] ELSE d
        ELSE write_file(files, op.col, op.key, merged, fail)

\* The UpdateRefcount arm writing every merge result, the empty one too.
fs_update_refcount_no_delete(files, op, dbg, fail) ==
    LET existing == read_file(files, op.col, op.key, fail)
    IN  IF existing.res # "ok" THEN [res |-> "panic", files |-> files]
        ELSE write_file(files, op.col, op.key, refcount_merge(existing.val, op.value), fail)

\* The UpdateRefcount arm of FilesystemArchiver::write.
fs_update_refcount(files, op, dbg, fail) ==
    LET existing == read_file(files, op.col, op.key, fail)
    IN  IF existing.res # "ok" THEN [res |-> "panic", files |-> files]
        ELSE LET merged == refcount_merge(existing.val, op.value)
             IN  IF merged = <<>>
                 THEN LET d == delete_file(files, op.col, op.key, fail)
                      IN  IF d.res # "ok" THEN [res |-> "panic", files |-> files] ELSE d
                 ELSE IF dbg /\ ~(decode_value_with_rc(merged).rc > 0)
                 THEN [res |-> "panic", files |-> files]
                 ELSE write_file(files, op.col, op.key, merged, fail)

\* The loop with a delete operation handed to delete_file.
fs_write_op_deletes(files, op, dbg, fail) ==
    CASE op.kind = "Set" -> write_file(files, op.col, op.key, op.value, fail)
      [] op.kind = "Insert" -> fs_insert(files, op, dbg, fail)
      [] op.kind = "UpdateRefcount" -> fs_update_refcount(files, op, dbg, fail)
      [] OTHER -> LET d == delete_file(files, op.col, op.key, fail)
                  IN  IF d.res # "ok" THEN [res |-> "panic", files |-> files] ELSE d

\* The loop with Insert among the unreachable operations, as in write_to_external.
fs_write_op_no_insert(files, op, dbg, fail) ==
    CASE op.kind = "Set" -> write_file(files, op.col, op.key, op.value, fail)
      [] op.kind = "UpdateRefcount" -> fs_update_refcount(files, op, dbg, fail)
      [] OTHER -> [res |-> "panic", files |-> files]

\* One turn of the loop of FilesystemArchiver::write: the arm of op and the
\* unwrap of its result.
fs_write_op(files, op, dbg, fail) ==
    CASE op.kind = "Set" -> write_file(files, op.col, op.key, op.value, fail)
      [] op.kind = "Insert" -> fs_insert(files, op, dbg, fail)
      [] op.kind = "UpdateRefcount" -> fs_update_refcount(files, op, dbg, fail)
      [] OTHER -> [res |-> "panic", files |-> files]

\* Archiver::write(batch): storage.write(batch).
ArchiverWrite ==
    /\ pc = "idle" /\ design = "Archiver"
    /\ \E tx \in Txs :
          /\ RcOf(ext[R1Path]) + NumIncr(tx) <= MaxRc
          /\ pc' = "fs"
          /\ cur' = Call("write", <<>>, SingleSet(tx))
          /\ ops' = tx
          /\ last' = Ret("write", <<>>, "running", None, FALSE)
          /\ MonCall(tx, FALSE)
    /\ UNCHANGED <<config, fs, dirs, streamer, lookup, cold, ext>>

\* Archiver::set_head(tip): HEAD_KEY, then COLD_HEAD_KEY, each in a ColdDB
\* transaction of its own whose result is unwrapped; fail: the "first" or the
\* "second" of the two writes returns an error.
archiver_set_head(db, tip, fail) ==
    LET first == ColdDbWrite(db, <<DBOp("Set", "BlockMisc", HEAD_KEY, BorshTip(tip))>>).db
        second == ColdDbWrite(first, <<DBOp("Set", "BlockMisc", COLD_HEAD_KEY, BorshTip(tip))>>).db
    IN  IF fail = "first" THEN [res |-> "panic", db |-> db]
        ELSE IF fail = "second" THEN [res |-> "panic", db |-> first]
        ELSE [res |-> "ok", db |-> second]

ArchiverSetHead ==
    /\ pc = "idle" /\ design = "Archiver"
    /\ \E tip \in Tips, fail \in {"none", "first", "second"} :
          LET r == archiver_set_head(cold, tip, fail)
          IN  /\ cold' = r.db
              /\ last' = Ret("set_head", <<tip>>, r.res, None, fail # "none")
              /\ pc' = PcAfter(r.res)
              /\ MonStep(fail # "none")
    /\ UNCHANGED <<config, fs, dirs, streamer, lookup, ext, cur, ops>>

\* Archiver::get_head: get_ser of HEAD_KEY from the ColdDB, unwrapped; fail:
\* the read returns an error.
archiver_get_head(db, fail) ==
    LET head == get_cold_head(db, fail)
    IN  IF head.res # "ok" THEN Panic ELSE head

ArchiverGetHead ==
    /\ pc = "idle" /\ design = "Archiver"
    /\ \E fail \in BOOLEAN :
          LET r == archiver_get_head(cold, fail)
          IN  /\ last' = Ret("get_head", <<>>, r.res, r.val, fail)
              /\ pc' = PcAfter(r.res)
              /\ MonStep(fail)
    /\ UNCHANGED <<config, fs, dirs, streamer, lookup, cold, ext, cur, ops>>

\* FilesystemArchiver::write, one operation at a time.
FsStep ==
    /\ pc = "fs"
    /\ \E fail \in IoFailures :
          LET r == fs_write_op(ext, Head(ops), debug, fail)
              \* the failure changed what the turn does
              io == r # fs_write_op(ext, Head(ops), debug, "none")
          IN  /\ ext' = r.files
              /\ MonStep(io)
              /\ IF r.res = "ok" /\ Tail(ops) # <<>>
                 THEN ops' = Tail(ops) /\ UNCHANGED <<pc, cur, last>>
                 ELSE Return(cur.op, cur.arg, cur.set, r.res, io)
    /\ UNCHANGED <<config, fs, dirs, streamer, lookup, cold>>

\* read_file called on the archive directory.
FsReadFile ==
    /\ pc = "idle" /\ design = "Archiver"
    /\ \E c \in Cells, fail \in IoFailures \ {"write"} :
          LET r == read_file(ext, c[1], c[2], fail)
              io == r # read_file(ext, c[1], c[2], "none")
          IN  /\ last' = Ret("read_file", c, r.res, r.val, io)
              /\ pc' = PcAfter(r.res)
              /\ MonStep(io)
    /\ UNCHANGED <<config, fs, dirs, streamer, lookup, cold, ext, cur, ops>>

(***************************************************************************)
(* write_file and read_file on one file, a writer and a reader taking      *)
(* turns system call by system call.                                       *)
(***************************************************************************)
others == <<design, storage, mirror, debug, cold, ext, pc, cur, ops, last, m3, m4, dirs, streamer, lookup>>

FileWriteStart ==
    /\ fs.w.pc = "idle" /\ fs.created < MaxWrites
    /\ \E value \in FileValues : fs' = temp_create(fs, value)
    /\ UNCHANGED others

FileWriteAll ==
    /\ fs.w.pc = "writing" /\ Len(fs.data[fs.w.id]) < Len(fs.w.value)
    /\ fs' = write_all_step(fs)
    /\ UNCHANGED others

FileRename ==
    /\ fs.w.pc = "writing" /\ Len(fs.data[fs.w.id]) = Len(fs.w.value)
    /\ fs' = renameat(fs)
    /\ UNCHANGED others

\* Any of the calls of write_file fails, or the process is stopped.
FileInterrupt ==
    /\ fs.w.pc = "writing"
    /\ fs' = write_interrupted(fs)
    /\ UNCHANGED others

FileOpen ==
    /\ fs.r.pc = "idle"
    /\ fs' = openat(fs)
    /\ UNCHANGED others

FileReadToEnd ==
    /\ fs.r.pc = "opened"
    /\ fs' = read_to_end(fs)
    /\ UNCHANGED others

InitFile ==
    /\ InitArchiver /\ debug = FALSE /\ cold = WithHead(Cells, None)
    /\ InitIdle
    /\ \/ fs = NoFiles(None, <<>>)
       \/ \E bytes \in FileValues : fs = NoFiles(Some(0), bytes)

NextFile ==
    FileWriteStart \/ FileWriteAll \/ FileRename \/ FileInterrupt \/ FileOpen \/ FileReadToEnd

SpecFile == InitFile /\ [][NextFile]_vars

(***************************************************************************)
(* get_path alone, of either design, on two (column, key) pairs.           *)
(***************************************************************************)
PathBytes == {0, 58, 255}
RECURSIVE KeysOfLen(_)
KeysOfLen(n) ==
    IF n = 0 THEN {<<>>} ELSE {Append(k, b) : k \in KeysOfLen(n - 1), b \in PathBytes}
PathKeys == UNION {KeysOfLen(n) : n \in 0..MaxKeyLen}

InitPath ==
    /\ \/ InitArchiver /\ debug = FALSE
       \/ InitArchivalStore /\ storage = "External" /\ ~mirror
    /\ cold = WithHead(Cells, None) /\ ext = WithHead(Paths, None)
    /\ pc = "idle" /\ ops = <<>> /\ m3 = 0 /\ m4 = 0 /\ fs = NoFiles(None, <<>>)
    /\ dirs = (IF design = "Archiver" THEN OpenedDirs ELSE {})
    /\ streamer = NoStreamer /\ lookup = NoLookup
    /\ last = Ret("none", <<>>, "none", None, FALSE)
    /\ \E c1, c2 \in Cols, k1, k2 \in PathKeys :
          cur = Call("get_path", <<c1, k1, c2, k2>>, None)

\* get_path(c1, k1) and get_path(c2, k2).
GetPath ==
    /\ cur.op = "get_path" /\ last.op = "none"
    /\ LET table == IF design = "Archiver" THEN col_to_dir ELSE column_to_path
           p1 == path_of(table, cur.arg[1], cur.arg[2])
           p2 == path_of(table, cur.arg[3], cur.arg[4])
       IN  IF IsSome(p1) /\ IsSome(p2)
           THEN last' = Ret("get_path", cur.arg, "ok", <<Unwrap(p1), Unwrap(p2)>>, FALSE)
           ELSE last' = Ret("get_path", cur.arg, "panic", None, FALSE)
    /\ UNCHANGED <<config, fs, dirs, streamer, lookup, cold, ext, pc, cur, ops, m3, m4>>

SpecPath == InitPath /\ [][GetPath]_vars

(***************************************************************************)
(* Opening: ArchivalStoreOpener::open (archive/mod.rs) and                 *)
(* ArchivalStorageOpener::open (archiver.rs), in a process that may exit   *)
(* and be started again on the same home directory.                        *)
(***************************************************************************)
\* DBCol::iter(): the columns in the order of their declaration; DbVersion
\* stands for the columns that are neither cold nor BlockMisc.
DBColIter == <<"DbVersion", "BlockMisc", "Block", "Receipts">>

\* cold_column_dirname: the match, then dirname.is_empty().then_some(dirname).
cold_column_dirname(col) ==
    LET dirname == ColumnDirName(col)
    IN  IF dirname = "" THEN Some(dirname) ELSE None

\* config.container, if any, in front of the directory name.
ContainerPath(container, dirname) ==
    IF IsSome(container) THEN <<Unwrap(container), dirname>> ELSE <<dirname>>

RECURSIVE open_column_to_path(_, _, _)
\* open, lines 39-50: the table of the columns cols after table, or the panic
\* on a column without a directory name.
open_column_to_path(cols, container, table) ==
    IF cols = <<>> THEN [res |-> "ok", table |-> table]
    ELSE LET col == Head(cols)
         IN  IF IsCold(col) \/ col = "BlockMisc"
             THEN LET dirname == cold_column_dirname(col)
                  IN  IF ~IsSome(dirname) THEN [res |-> "panic", table |-> table]
                      ELSE open_column_to_path(Tail(cols), container,
                              table @@ (col :> ContainerPath(container, Unwrap(dirname))))
             ELSE open_column_to_path(Tail(cols), container, table)

\* open that hands the ColdDB on as the sync ColdDB in every case: a clone of
\* cold_db in the place of cold_db.take().
open_storage_no_take(location, cold_db, fail) ==
    CASE location = "ColdDB" ->
            IF cold_db THEN [res |-> "ok", storage |-> "ColdDB", mirror |-> cold_db]
            ELSE [res |-> "panic", storage |-> "none", mirror |-> FALSE]
      [] location = "Filesystem" ->
            IF fail THEN [res |-> "err", storage |-> "none", mirror |-> FALSE]
            ELSE [res |-> "ok", storage |-> "External", mirror |-> cold_db]
      [] OTHER -> [res |-> "ok", storage |-> "External", mirror |-> cold_db]

\* open, lines 51-72: the storage and the sync ColdDB handed to
\* ArchivalStore::new; cold_db: a ColdDB is given, fail: FilesystemStorage::open
\* returns an error.
open_storage(location, cold_db, fail) ==
    CASE location = "ColdDB" ->
            IF cold_db THEN [res |-> "ok", storage |-> "ColdDB", mirror |-> FALSE]
            ELSE [res |-> "panic", storage |-> "none", mirror |-> FALSE]
      [] location = "Filesystem" ->
            IF fail THEN [res |-> "err", storage |-> "none", mirror |-> FALSE]
            ELSE [res |-> "ok", storage |-> "External", mirror |-> cold_db]
      [] OTHER -> [res |-> "ok", storage |-> "External", mirror |-> cold_db]

\* The process after a call of open that returned res.
Opened(res) == IF res = "ok" THEN "idle" ELSE IF res = "panic" THEN "aborted" ELSE "closed"

\* ArchivalStoreOpener::open(cold_db)
ArchivalStoreOpen ==
    /\ pc = "closed" /\ design = "ArchivalStore"
    /\ \E location \in {"ColdDB", "Filesystem", "GCloud"}, cold_db \in BOOLEAN,
          container \in {None, Some("archive")}, fail \in BOOLEAN :
          LET t == open_column_to_path(DBColIter, container, <<>>)
              s == open_storage(location, cold_db, fail)
              res == IF t.res # "ok" THEN t.res ELSE s.res
          IN  /\ last' = Ret("open", <<location, cold_db>>, res,
                             IF res = "ok" THEN Some(t.table) ELSE None,
                             res = "err")
              /\ pc' = Opened(res)
              /\ storage' = (IF res = "ok" THEN s.storage ELSE storage)
              /\ mirror' = (IF res = "ok" THEN s.mirror ELSE mirror)
    /\ UNCHANGED <<design, debug, cold, ext, cur, ops, m3, m4, fs, dirs, streamer, lookup>>

\* cold_column_dirname called on a column, as test_cold_column_dirname does.
ColdColumnDirname ==
    /\ pc = "closed" /\ design = "ArchivalStore"
    /\ \E i \in 1..Len(DBColIter) :
          last' = Ret("cold_column_dirname", <<DBColIter[i]>>, "ok",
                      cold_column_dirname(DBColIter[i]), FALSE)
    /\ UNCHANGED <<config, cold, ext, pc, cur, ops, m3, m4, fs, dirs, streamer, lookup>>

RECURSIVE setup_dirs_from(_, _, _, _, _)
\* The loop of setup_dirs over the columns cols: create_dir of the directory
\* of every cold column, which fails on a directory that exists; n: the number
\* of system calls made so far, failAt: the one that fails for another reason
\* (0: none).  Every failure is unwrapped.
setup_dirs_from(cols, disk, col_to_dir_, n, failAt) ==
    IF cols = <<>> THEN [res |-> "ok", dirs |-> disk, col_to_dir |-> col_to_dir_, n |-> n]
    ELSE LET col == Head(cols)
         IN  IF ~IsCold(col) THEN setup_dirs_from(Tail(cols), disk, col_to_dir_, n, failAt)
             ELSE IF failAt = n + 1 \/ col \in disk
             THEN [res |-> "panic", dirs |-> disk, col_to_dir |-> col_to_dir_, n |-> n + 1]
             ELSE setup_dirs_from(Tail(cols), disk \cup {col},
                                  col_to_dir_ @@ (col :> col), n + 1, failAt)

\* FilesystemArchiver::setup_dirs: create_dir_all of the base directory, which
\* succeeds on one that exists, then the loop.
setup_dirs(disk, failAt) ==
    IF failAt = 1 THEN [res |-> "panic", dirs |-> disk, col_to_dir |-> <<>>, n |-> 1]
    ELSE setup_dirs_from(DBColIter, disk \cup {BaseDir}, <<>>, 1, failAt)

\* FilesystemArchiver::open: setup_dirs, then the base directory is opened.
fs_open(disk, failAt) ==
    LET d == setup_dirs(disk, failAt)
    IN  IF d.res = "ok" /\ failAt = d.n + 1 THEN [d EXCEPT !.res = "panic"] ELSE d

\* ArchivalStorageOpener::open(cold_db); failAt: which of the system calls of
\* FilesystemArchiver::open fails (create_dir_all, one create_dir per cold
\* column, open).
ArchiverOpen ==
    /\ pc = "closed" /\ design = "Archiver"
    /\ \E location \in {"ColdDB", "Filesystem"}, failAt \in 0..(Cardinality(OpenedDirs) + 1) :
          LET r == IF location = "ColdDB"
                   THEN [res |-> "ok", dirs |-> dirs, col_to_dir |-> <<>>, n |-> 0]
                   ELSE fs_open(dirs, failAt)
          IN  /\ (location = "ColdDB" => failAt = 0)
              /\ last' = Ret("open", <<location, dirs>>, r.res,
                             IF r.res = "ok" THEN Some(r.col_to_dir) ELSE None,
                             failAt # 0 /\ failAt <= r.n + 1 /\ r.res # "ok")
              /\ pc' = Opened(r.res)
              /\ storage' = (IF r.res = "ok" THEN location ELSE storage)
              /\ dirs' = r.dirs
    /\ UNCHANGED <<design, mirror, debug, cold, ext, cur, ops, m3, m4, fs, streamer, lookup>>

\* The process ends; what is on disk stays.
Exit ==
    /\ pc \in {"idle", "aborted"}
    /\ pc' = "closed" /\ storage' = "none" /\ mirror' = FALSE
    /\ UNCHANGED <<design, debug, cold, ext, cur, ops, last, m3, m4, fs, dirs, streamer, lookup>>

\* A home directory in which no archive was made, or one that an earlier run
\* opened and may have written the receipt to.
InitOpen ==
    /\ design \in {"ArchivalStore", "Archiver"}
    /\ debug = FALSE
    /\ storage = "none" /\ mirror = FALSE
    /\ \E h \in InitHeads : cold = WithHead(Cells, h)
    /\ \/ dirs = {} /\ ext = WithHead(Paths, None)
       \/ /\ design = "Archiver" /\ dirs = OpenedDirs
          /\ ext \in {WithHead(Paths, None), [WithHead(Paths, None) EXCEPT ![R1Path] = Some(V1)]}
    /\ pc = "closed" /\ cur = NoCall /\ ops = <<>> /\ m3 = 0 /\ m4 = 0
    /\ last = Ret("none", <<>>, "none", None, FALSE)
    /\ fs = NoFiles(None, <<>>)
    /\ streamer = NoStreamer /\ lookup = NoLookup

NextOpen == ArchivalStoreOpen \/ ColdColumnDirname \/ ArchiverOpen \/ Exit

SpecOpen == InitOpen /\ [][NextOpen]_vars

\* ArchivalStore::new(storage, sync_cold_db, ..) as lines 51-72 of open call
\* it: every storage location, with and without a ColdDB, that open accepts.
InitOpened ==
    /\ design = "ArchivalStore" /\ debug = FALSE
    /\ \E location \in {"ColdDB", "Filesystem", "GCloud"}, cold_db \in BOOLEAN :
          LET r == open_storage(location, cold_db, FALSE)
          IN  /\ r.res = "ok"
              /\ storage = r.storage /\ mirror = r.mirror
              /\ \E h \in (IF cold_db THEN InitHeads ELSE {None}) : cold = WithHead(Cells, h)
              /\ \E h \in (IF r.storage = "External" THEN InitHeads ELSE {None}) :
                    ext = WithHead(Paths, h)
    /\ InitCalls

\* write of the transactions of one operation, set_head, write_to_external.
SpecOpened ==
    InitOpened /\ [][WriteTx({<<o>> : o \in Ops}) \/ SetHead \/ ExternalStep]_vars

(***************************************************************************)
(* GoogleCloudArchiver (archive/gcloud.rs): the bucket as a map from       *)
(* object names to bytes, held in ext.                                     *)
(***************************************************************************)
\* put: the object created is named by location, which is "fake"; path is
\* only logged.  fail: the request fails, which is mapped to an io::Error.
gcs_put(bucket, path, value, fail) ==
    IF fail THEN [res |-> "err", bucket |-> bucket]
    ELSE [res |-> "ok", bucket |-> [bucket EXCEPT ![<<"fake">>] = Some(value)]]

GcsPut ==
    /\ pc = "idle"
    /\ \E path \in Paths, value \in {<<>>, V1, Garbage, BorshTip(1), BorshTip(MaxTip)},
          fail \in BOOLEAN :
          LET r == gcs_put(ext, path, value, fail)
          IN  /\ ext' = r.bucket
              /\ last' = Ret("put", <<path, value>>, r.res, None, fail)
    /\ UNCHANGED <<config, cold, pc, cur, ops, m3, m4, fs, dirs, streamer, lookup>>

\* get and delete: unimplemented!()
GcsUnimplemented ==
    /\ pc = "idle"
    /\ \E op \in {"get", "delete"}, path \in Paths :
          last' = Ret(op, <<path>>, "panic", None, FALSE)
    /\ pc' = "aborted"
    /\ UNCHANGED <<config, cold, ext, cur, ops, m3, m4, fs, dirs, streamer, lookup>>

\* GoogleCloudArchiver::open(bucket), the bucket holding no object.
InitGcs ==
    /\ design = "ArchivalStore" /\ debug = FALSE
    /\ storage = "External" /\ mirror = FALSE
    /\ cold = WithHead(Cells, None)
    /\ ext = [o \in Paths \cup {<<"fake">>} |-> None]
    /\ InitCalls

SpecGcs == InitGcs /\ [][GcsPut \/ GcsUnimplemented]_vars

(***************************************************************************)
(* The streamer loop: start (chain/indexer/src/streamer/mod.rs).           *)
(* streamer.pc is "main" at the top of the main loop, "for" in the loop    *)
(* over block heights, "done" after the break, "aborted" after a panic.    *)
(* Heights stay far below the end of u64, so + 1 does not overflow.        *)
(***************************************************************************)
Heights == 0..MaxHeight

RECURSIVE to_string(_)
\* block_height.to_string(): the decimal digits.
to_string(n) == IF n < 10 THEN <<n>> ELSE Append(to_string(n \div 10), n % 10)

RECURSIVE parse_u64(_)
\* String::parse::<u64> of decimal digits.
parse_u64(digits) ==
    IF Len(digits) = 1 THEN digits[1]
    ELSE 10 * parse_u64(SubSeq(digits, 1, Len(digits) - 1)) + digits[Len(digits)]

\* The start of the range without the + 1.
start_syncing_block_height_same(st, latest_block_height, fail) ==
    IF IsSome(st.last_synced_block_height)
    THEN Ok(Unwrap(st.last_synced_block_height))
    ELSE CASE st.sync_mode.kind = "FromInterruption" ->
                 IF fail THEN Panic
                 ELSE IF IsSome(st.db) THEN Ok(parse_u64(Unwrap(st.db)))
                 ELSE Ok(latest_block_height)
           [] st.sync_mode.kind = "LatestSynced" -> Ok(latest_block_height)
           [] OTHER -> Ok(st.sync_mode.height)

\* Lines 413-428: where the range of heights starts; fail: db.get returns an
\* error, which is unwrapped.
start_syncing_block_height(st, latest_block_height, fail) ==
    IF IsSome(st.last_synced_block_height)
    THEN Ok(Unwrap(st.last_synced_block_height) + 1)
    ELSE CASE st.sync_mode.kind = "FromInterruption" ->
                 IF fail THEN Panic
                 ELSE IF IsSome(st.db) THEN Ok(parse_u64(Unwrap(st.db)))
                 ELSE Ok(latest_block_height)
           [] st.sync_mode.kind = "LatestSynced" -> Ok(latest_block_height)
           [] OTHER -> Ok(st.sync_mode.height)

\* One turn of the main loop up to the for loop (lines 393-438); go: the node
\* is not syncing and fetch_latest_block returned a block, of any height.
StreamerIterate ==
    /\ streamer.pc = "main"
    /\ \E go \in BOOLEAN, latest_block_height \in Heights, fail \in BOOLEAN :
          IF ~go THEN UNCHANGED streamer
          ELSE LET start == start_syncing_block_height(streamer, latest_block_height, fail)
               IN  streamer' =
                     IF start.res = "panic" THEN [streamer EXCEPT !.pc = "aborted"]
                     ELSE [streamer EXCEPT
                             !.latest_block_height = latest_block_height,
                             !.block_height = start.val,
                             !.pc = IF start.val <= latest_block_height THEN "for" ELSE "main"]
    /\ UNCHANGED <<config, cold, ext, pc, cur, ops, last, m3, m4, fs, dirs, lookup>>

\* One turn of the for loop (lines 438-467): the block of block_height is
\* fetched, built into a message and sent, or skipped when the fetch or the
\* build fails; a failed send breaks the main loop; then the height is stored
\* (fail: db.put returns an error, which is unwrapped) and kept.
StreamerBlock ==
    /\ streamer.pc = "for"
    /\ \E outcome \in {"sent", "send_failed", "fetch_failed", "build_failed"},
          fail \in BOOLEAN :
          LET sent == IF outcome = "sent"
                      THEN Append(streamer.sent, streamer.block_height) ELSE streamer.sent
          IN  streamer' =
                IF outcome = "send_failed" THEN [streamer EXCEPT !.pc = "done"]
                ELSE IF fail THEN [streamer EXCEPT !.sent = sent, !.pc = "aborted"]
                ELSE [streamer EXCEPT
                        !.sent = sent,
                        !.db = Some(to_string(streamer.block_height)),
                        !.last_synced_block_height = Some(streamer.block_height),
                        !.block_height = @ + 1,
                        !.pc = IF streamer.block_height < streamer.latest_block_height
                               THEN "for" ELSE "main"]
    /\ UNCHANGED <<config, cold, ext, pc, cur, ops, last, m3, m4, fs, dirs, lookup>>

\* start is entered: no height synced in this run, the indexer db empty or
\* holding the height an earlier run stored, any sync mode.
InitStreamer ==
    /\ design = "Indexer" /\ debug = FALSE /\ storage = "none" /\ mirror = FALSE
    /\ cold = WithHead(Cells, None) /\ ext = WithHead(Paths, None)
    /\ pc = "idle" /\ cur = NoCall /\ ops = <<>> /\ m3 = 0 /\ m4 = 0
    /\ last = Ret("none", <<>>, "none", None, FALSE)
    /\ fs = NoFiles(None, <<>>) /\ dirs = {} /\ lookup = NoLookup
    /\ \E db \in {None} \cup {Some(to_string(h)) : h \in Heights},
          sync_mode \in {[kind |-> k, height |-> 0] : k \in {"FromInterruption", "LatestSynced"}}
                        \cup {[kind |-> "BlockHeight", height |-> h] : h \in Heights} :
          streamer = [NoStreamer EXCEPT !.pc = "main", !.db = db, !.sync_mode = sync_mode]

SpecStreamer == InitStreamer /\ [][StreamerIterate \/ StreamerBlock]_vars

(***************************************************************************)
(* lookup_delayed_local_receipt_in_previous_blocks (streamer/mod.rs).      *)
(* A block is named by its depth behind the block of the call: the hash in *)
(* block.header.prev_hash names depth 1, the prev_hash of the block of     *)
(* depth d names depth d + 1.  lookup.blocks is the number of previous     *)
(* blocks the node can serve, lookup.holders the depths of the blocks in   *)
(* which find_local_receipt_by_id_in_block finds the receipt.              *)
(***************************************************************************)
\* The number the counter is compared with (line 278).
LookupLimit == 1000

\* The depths at which the receipt and the end of the chain are placed: the
\* first MaxBeyond blocks, and around the limit up to MaxBeyond past it.
LookupDepths == (1..MaxBeyond) \cup ((LookupLimit - 1)..(LookupLimit + MaxBeyond))

\* One turn of the loop (lines 277-312).  The counter is compared with the
\* limit first (panic, line 279); then the block named by prev_block_hash is
\* fetched (an error panics, line 292) and prev_block_hash moves to its
\* parent; the block is searched: an error is returned by ?, a receipt found
\* ends the loop with Ok, and otherwise the counter goes up by one.  The
\* counter is a u16 and stays below LookupLimit + 2, so += 1 cannot overflow.
LookupStep ==
    /\ lookup.pc = "loop"
    /\ \E outcome \in {"ok", "fetch_failed", "find_failed"} :
          lookup' =
            IF lookup.prev_block_tried > LookupLimit
            THEN [lookup EXCEPT !.pc = "aborted", !.result = Panic, !.msg = "limit"]
            ELSE IF outcome = "fetch_failed" \/ lookup.prev_block_hash > lookup.blocks
            THEN [lookup EXCEPT !.pc = "aborted", !.result = Panic, !.msg = "fetch"]
            ELSE LET prev_block == lookup.prev_block_hash
                     searched == [lookup EXCEPT !.prev_block_hash = prev_block + 1,
                                                !.examined = @ + 1]
                 IN  IF outcome = "find_failed"
                     THEN [searched EXCEPT !.pc = "done", !.result = Err]
                     ELSE IF prev_block \in lookup.holders
                     THEN [searched EXCEPT !.pc = "done", !.result = Ok(prev_block)]
                     ELSE [searched EXCEPT !.prev_block_tried = @ + 1]
    /\ UNCHANGED <<config, cold, ext, pc, cur, ops, last, m3, m4, fs, dirs, streamer>>

\* The function is entered (lines 275-276) for a receipt held by at most two
\* of the previous blocks, on a chain that ends early or goes past the limit.
InitLookup ==
    /\ design = "Indexer" /\ debug = FALSE /\ storage = "none" /\ mirror = FALSE
    /\ cold = WithHead(Cells, None) /\ ext = WithHead(Paths, None)
    /\ pc = "idle" /\ cur = NoCall /\ ops = <<>> /\ m3 = 0 /\ m4 = 0
    /\ last = Ret("none", <<>>, "none", None, FALSE)
    /\ fs = NoFiles(None, <<>>) /\ dirs = {} /\ streamer = NoStreamer
    /\ \E blocks \in {MaxBeyond, LookupLimit + MaxBeyond},
          holders \in {h \in SUBSET LookupDepths : Cardinality(h) <= 2} :
          lookup = [NoLookup EXCEPT !.pc = "loop", !.prev_block_hash = 1,
                                    !.blocks = blocks, !.holders = holders]

SpecLookup == InitLookup /\ [][LookupStep]_vars

(***************************************************************************)
(* The ArchivalStore over transactions of Set operations.                  *)
(***************************************************************************)
Init == InitArchivalStore /\ InitCalls

Next == GetHead \/ SetHead \/ Write \/ ExternalStep \/ TrySyncColdHead \/ Read

Spec == Init /\ [][Next]_vars

(***************************************************************************)
(* Every kind of operation, on the FilesystemArchiver and on an            *)
(* ArchivalStore without a sync ColdDB.                                    *)
(***************************************************************************)
InitRc == (InitArchiver \/ (InitArchivalStore /\ ~mirror)) /\ InitCalls

NextRc == WriteRc \/ ExternalStep \/ Read \/ ArchiverWrite \/ FsStep \/ FsReadFile

SpecRc == InitRc /\ [][NextRc]_vars

(***************************************************************************)
(* An ArchivalStore with an external storage and a sync ColdDB, opened     *)
(* with the two heads equal.                                               *)
(***************************************************************************)
ColdHead == cold[<<"BlockMisc", HEAD_KEY>>]
ExternalHead == ext[HeadPath]

InitSynced == Init /\ storage = "External" /\ mirror /\ ColdHead = ExternalHead

SpecSynced == InitSynced /\ [][Next]_vars

\* C1: with an external storage and a sync ColdDB, whenever no call is in
\* progress the head under HEAD_KEY in the ColdDB equals the head under
\* HEAD_KEY in the external storage.
C1_HeadsInSync ==
    (storage = "External" /\ mirror /\ pc = "idle") => ColdHead = ExternalHead

(***************************************************************************)
(* Values.                                                                 *)
(***************************************************************************)
Reads == {"read", "read_file"}

\* C2: a read of (c, k) that follows a write of [Set(c, k, v)] which returned
\* Ok, and meets no I/O error, returns Some(v); a read changes no store.
C2_SetReadRoundTrip ==
    [][ /\ (/\ last.op = "write" /\ last.res = "ok" /\ IsSome(last.val)
            /\ last'.op \in Reads /\ last'.arg = CellOf(Unwrap(last.val))
            /\ ~last'.io)
           => (last'.res = "ok" /\ last'.val = Some(Unwrap(last.val).value))
        /\ (pc = "idle" /\ last'.op \in Reads) => (cold' = cold /\ ext' = ext)
      ]_vars

\* A write of one Set to the external storage has returned Ok.
C2_Witness ==
    /\ storage = "External" /\ last.op = "write" /\ last.res = "ok"
    /\ IsSome(last.val) /\ pc = "idle"

\* The bytes stored for the receipt key by the backend that is configured.
Stored ==
    IF storage = "ColdDB" THEN cold[<<"Receipts", R1>>] ELSE ext[R1Path]

\* The write that made the last step of a scenario has returned.
Returned == last.op = "write" /\ pc \notin {"fs", "external"}

\* C3: on the FilesystemArchiver, from an absent key, UpdateRefcount of
\* (raw = v, +1) and then of +1 leave v stored with refcount 2; two further
\* UpdateRefcount of -1 leave the key absent; each of the four writes
\* returns Ok.
C3_RefcountAccumulates ==
    design = "Archiver" =>
        /\ (m3 \in 1..4 /\ Returned) => last.res = "ok"
        /\ (m3 = 2 /\ pc # "fs") =>
              /\ IsSome(Stored)
              /\ decode_value_with_rc(Unwrap(Stored)) = [raw |-> Some(Payload), rc |-> 2]
              /\ read_file(ext, "Receipts", R1, "none") = Ok(Some(encode_value_with_rc(Payload, 2)))
        /\ (m3 = 4 /\ pc # "fs") => read_file(ext, "Receipts", R1, "none") = Ok(None)

\* The count has gone up to 2 and down to 0.
C3_Witness == design = "Archiver" /\ m3 = 4 /\ Returned /\ last.res = "ok"

\* C3 as stated: the third UpdateRefcount of -1 returns Ok as well and leaves
\* the key absent.
C3_ThreeDecrements ==
    (design = "Archiver" /\ m3 = 5 /\ Returned) =>
        (last.res = "ok" /\ read_file(ext, "Receipts", R1, "none") = Ok(None))

C5_PositiveRefcount ==
    \A o \in {cold[<<"Receipts", R1>>], ext[R1Path]} :
        IsSome(o) => decode_value_with_rc(Unwrap(o)).rc > 0

\* An UpdateRefcount whose merge came to a count <= 0 has removed the file.
C5_Witness ==
    /\ design = "Archiver" /\ last.op = "write" /\ last.res = "ok" /\ pc = "idle"
    /\ m4 = 3 /\ ext[R1Path] = None

(***************************************************************************)
(* Heads of an ArchivalStore.  A call is told by the step that starts it:  *)
(* from "idle", the only step that leaves last'.op = f is the call of f.   *)
(***************************************************************************)
MirrorStore == design = "ArchivalStore" /\ storage = "External" /\ mirror
\* The head that head bytes decode to, None if absent or undecodable.
HeadTip(raw) == DecodeHead(raw).val
HasHead(raw) == IsSome(HeadTip(raw))
TrySyncCall == pc = "idle" /\ last'.op = "try_sync_cold_head"
\* The call returns an error because a read or a put returned one.
IoError == last'.io /\ last'.res = "err" /\ pc' = "idle"

\* C6: try_sync_cold_head on a store whose sync ColdDB has head H and whose
\* external storage has none writes set_head_tx(H) to the external storage
\* only; unless a store returns an I/O error it returns Ok, and then the
\* external head is H and the ColdDB is as it was.
C6_SyncPushesHead ==
    [][ /\ (TrySyncCall /\ MirrorStore /\ HasHead(ColdHead) /\ ExternalHead = None)
           => /\ cold' = cold /\ ext' = ext
              /\ \/ IoError
                 \/ /\ ~last'.io /\ pc' = "external"
                    /\ ops' = set_head_tx(Unwrap(HeadTip(ColdHead)))
        /\ (pc = "external" /\ cur.op = "try_sync_cold_head")
           => /\ cold' = cold
              /\ pc' \in {"external", "idle"}
              /\ pc' = "idle" =>
                    \/ IoError
                    \/ /\ ~last'.io /\ last'.res = "ok"
                       /\ HeadTip(ext'[HeadPath]) = HeadTip(ColdHead)
                       /\ HasHead(ColdHead)
      ]_vars

\* The head has been put in the external storage, the cold head is to follow.
C6_Witness ==
    /\ pc = "external" /\ cur.op = "try_sync_cold_head" /\ Len(ops) = 1
    /\ HasHead(ColdHead) /\ ExternalHead = ColdHead /\ ext[ColdHeadPath] = None

\* C7: try_sync_cold_head changes neither store and starts no write when the
\* two heads are equal, when there is no sync ColdDB, or when the storage is
\* the ColdDB; it returns Ok, in the first case unless a read returns an error.
C7_SyncNoOp ==
    [][ (/\ TrySyncCall
         /\ \/ ~mirror
            \/ storage = "ColdDB"
            \/ HasHead(ColdHead) /\ HeadTip(ColdHead) = HeadTip(ExternalHead))
        => /\ cold' = cold /\ ext' = ext /\ pc' = "idle"
           /\ IoError \/ (~last'.io /\ last'.res = "ok")
           /\ (~mirror \/ storage = "ColdDB") => ~last'.io
      ]_vars

\* The call returned Ok on a store opened with equal heads and never written.
C7_Witness ==
    /\ MirrorStore /\ last.op = "try_sync_cold_head" /\ last.res = "ok"
    /\ HasHead(ColdHead) /\ HeadTip(ColdHead) = HeadTip(ExternalHead)
    /\ m3 = 0

\* C8: try_sync_cold_head on a store whose two heads are present and differ
\* changes neither store and starts no write; unless a read returns an error
\* it panics, and nothing runs after the panic.
C8_SyncUnequalHeadsFatal ==
    [][ /\ (/\ TrySyncCall /\ MirrorStore
            /\ HasHead(ColdHead) /\ HasHead(ExternalHead)
            /\ HeadTip(ColdHead) # HeadTip(ExternalHead))
           => /\ cold' = cold /\ ext' = ext
              /\ IoError \/ (~last'.io /\ last'.res = "panic" /\ pc' = "aborted")
        /\ pc = "aborted" => vars' = vars
      ]_vars

\* The call has panicked over two heads that differ.
C8_Witness ==
    /\ MirrorStore /\ last.op = "try_sync_cold_head" /\ last.res = "panic"
    /\ HasHead(ColdHead) /\ HasHead(ExternalHead)

\* C9: try_sync_cold_head on a store whose sync ColdDB has no head changes
\* neither store and starts no write; unless a read returns an error it
\* panics if the external storage has a head and returns Ok if it has none.
C9_SyncUnsetColdHead ==
    [][ (TrySyncCall /\ MirrorStore /\ ColdHead = None)
        => /\ cold' = cold /\ ext' = ext /\ pc' # "external"
           /\ last'.io => IoError
           /\ (~last'.io /\ HasHead(ExternalHead)) =>
                 (last'.res = "panic" /\ pc' = "aborted")
           /\ (~last'.io /\ ExternalHead = None) =>
                 (last'.res = "ok" /\ pc' = "idle")
      ]_vars

\* The call has panicked over an external head without a ColdDB head.
C9_Witness ==
    /\ MirrorStore /\ last.op = "try_sync_cold_head" /\ last.res = "panic"
    /\ ColdHead = None /\ HasHead(ExternalHead)

\* What get_head returned.
Returns(r) == last'.res = r.res /\ last'.val = r.val

\* C10: get_head changes no store.  With an external storage and a sync
\* ColdDB, once both heads are read and decoded it panics if they differ,
\* one being absent included, and returns the external head otherwise.  With
\* the ColdDB as storage it returns the head decoded from the ColdDB.
C10_GetHeadCompares ==
    [][ (pc = "idle" /\ last'.op = "get_head")
        => /\ cold' = cold /\ ext' = ext
           /\ last'.io => IoError
           /\ (/\ ~last'.io /\ MirrorStore
               /\ DecodeHead(ColdHead).res = "ok" /\ DecodeHead(ExternalHead).res = "ok")
              => IF HeadTip(ColdHead) # HeadTip(ExternalHead)
                 THEN last'.res = "panic" /\ pc' = "aborted"
                 ELSE Returns(Ok(HeadTip(ExternalHead))) /\ pc' = "idle"
           /\ (~last'.io /\ storage = "ColdDB") => Returns(DecodeHead(ColdHead))
      ]_vars

\* get_head has panicked over a ColdDB head that the external storage lacks.
C10_Witness ==
    /\ MirrorStore /\ last.op = "get_head" /\ last.res = "panic"
    /\ HasHead(ColdHead) /\ ExternalHead = None

(***************************************************************************)
(* set_head, get_head and try_sync_cold_head of every ArchivalStore, and   *)
(* set_head of the Archiver.                                               *)
(***************************************************************************)
InitHead == (InitArchivalStore \/ InitArchiver) /\ InitCalls

NextHead ==
    SetHead \/ ExternalStep \/ GetHead \/ TrySyncColdHead \/ ArchiverSetHead \/ ArchiverGetHead

SpecHead == InitHead /\ [][NextHead]_vars

\* The bytes under the live-head key and under the cold-head key of a ColdDB,
\* of the external storage.
ColdAliases == <<cold[<<"BlockMisc", HEAD_KEY>>], cold[<<"BlockMisc", COLD_HEAD_KEY>>]>>
ExternalAliases == <<ext[HeadPath], ext[ColdHeadPath]>>
Both(tip) == <<Some(BorshTip(tip)), Some(BorshTip(tip))>>

\* C11: once set_head(tip) has returned Ok, HEAD_KEY and COLD_HEAD_KEY both
\* hold the borsh bytes of tip in every store the call writes: the ColdDB of
\* the Archiver, the storage of the ArchivalStore, and its sync ColdDB.
C11_HeadAliasesEqual ==
    (last.op = "set_head" /\ last.res = "ok" /\ pc = "idle") =>
        LET tip == last.arg[1]
        IN  /\ (design = "Archiver" \/ storage = "ColdDB" \/ mirror) => ColdAliases = Both(tip)
            /\ storage = "External" => ExternalAliases = Both(tip)

\* set_head has returned Ok on a store with an external storage and a sync ColdDB.
C11_Witness == MirrorStore /\ last.op = "set_head" /\ last.res = "ok" /\ pc = "idle"

\* The path of a cell in the external storage.
PathOf(c) == Unwrap(get_path(c[1], c[2]))

\* C12: on a store with an external storage and a sync ColdDB, whatever a
\* step puts in the external storage the sync ColdDB holds already under the
\* same (column, key), and the ColdDB is written only by the first step of a
\* call, which puts nothing.
C12_MirrorWrittenFirst ==
    [][ MirrorStore =>
           /\ \A c \in Cells :
                 ext'[PathOf(c)] # ext[PathOf(c)] =>
                    (ext'[PathOf(c)] = cold[c] /\ cold' = cold)
           /\ cold' # cold => (ext' = ext /\ pc = "idle")
      ]_vars

\* set_head has written the sync ColdDB and has put the head, not yet the cold head.
C12_Witness ==
    /\ MirrorStore /\ pc = "external" /\ cur.op = "set_head" /\ Len(ops) = 1
    /\ ext[HeadPath] = cold[<<"BlockMisc", HEAD_KEY>>]
    /\ ext[ColdHeadPath] # cold[<<"BlockMisc", COLD_HEAD_KEY>>]

(***************************************************************************)
(* One file, step by step.                                                 *)
(***************************************************************************)
\* C13: a read_file that runs while a write_file to the same file is under
\* way returns None or a complete value: the bytes the file held when it was
\* opened, all of them, never a part of the value being written.
C13_ReadSeesCompleteValue ==
    /\ fs.r.pc = "opened" => (fs.data[fs.r.fd] = fs.r.seen /\ fs.r.seen \in FileValues)
    /\ IsSome(fs.r.result) =>
          \/ Unwrap(fs.r.result) = None
          \/ Unwrap(fs.r.result) = Some(fs.r.seen) /\ fs.r.seen \in FileValues

\* A read returned the previous value while the new one was half written.
C13_Witness ==
    /\ fs.w.pc = "writing" /\ Len(fs.data[fs.w.id]) = 1
    /\ IsSome(fs.r.result) /\ Unwrap(fs.r.result) = Some(fs.r.seen)
    /\ fs.r.seen # fs.w.value

\* C14: while a write_file has created its temporary file and has not renamed
\* it, and after it was interrupted there, the name of the file still gives
\* the bytes it gave before the call, or still no file; what it gives is
\* never a part of a value.
C14_InterruptedWriteKeepsValue ==
    /\ fs.w.pc \in {"writing", "failed"} => Committed(fs) = fs.w.before
    /\ IsSome(Committed(fs)) => Unwrap(Committed(fs)) \in FileValues

\* A write_file over an existing file was interrupted with half of the value written.
C14_Witness ==
    /\ fs.w.pc = "failed" /\ Len(fs.data[fs.w.id]) = 1
    /\ IsSome(fs.w.before) /\ Unwrap(fs.w.before) # fs.w.value

(***************************************************************************)
(* Failures and faults of the backends.                                    *)
(***************************************************************************)
\* C15: a call of write or read under which a store or the file system
\* failed has returned an error, and the process runs on.
C15_IoFailureIsError ==
    (last.io /\ last.op \in {"write", "read", "read_file"}) =>
        (last.res = "err" /\ pc # "aborted")

\* C16: read_file on a column that has a directory returns Ok(None) for a
\* file that does not exist and Ok of its bytes for one that does, unless
\* opening or reading it fails; then it returns an error and the process
\* runs on.
C16_ReadFileErrors ==
    (last.op = "read_file" /\ IsCold(last.arg[1])) =>
        /\ pc # "aborted"
        /\ IF last.io THEN last.res = "err"
           ELSE last.res = "ok" /\ last.val = ext[Unwrap(fs_get_path(last.arg[1], last.arg[2]))]

\* What a read of the receipt key returns now, no failure met.
ReadNow ==
    IF design = "Archiver" THEN read_file(ext, "Receipts", R1, "none")
    ELSE read("Receipts", R1, FALSE)

\* No write was made; the writes made took the refcount of the receipt key
\* up and back to zero.
NeverWritten == m3 = 0 /\ m4 = 0
ReleasedToZero == m3 = 4 \/ m4 = 3

\* C17: a read of a key that was never written and a read of a key whose
\* refcount was merged down to zero both return Ok(None).
C17_AbsentReadsNone ==
    (pc = "idle" /\ (NeverWritten \/ ReleasedToZero)) => ReadNow = Ok(None)

\* read_file has returned None for the receipt key after its refcount went to zero.
C17_Witness ==
    /\ design = "Archiver" /\ m3 = 4 /\ pc = "idle"
    /\ last.op = "read_file" /\ last.arg = <<"Receipts", R1>>
    /\ last.res = "ok" /\ last.val = None

\* A write is at an operation of its transaction.
AtOp == pc \in {"fs", "external"}

\* C18: when a Delete, DeleteAll or DeleteRange comes to its turn in
\* FilesystemArchiver::write or in write_to_external the process panics and
\* no store changes; no step of write_to_external removes a stored value,
\* and a step of FilesystemArchiver::write removes one only for an
\* UpdateRefcount.
C18_DeleteIsFatal ==
    [][ AtOp =>
           /\ Head(ops).kind \in DeleteKinds =>
                 (pc' = "aborted" /\ last'.res = "panic" /\ ext' = ext /\ cold' = cold)
           /\ \A p \in Paths :
                 (IsSome(ext[p]) /\ ~IsSome(ext'[p])) =>
                    (pc = "fs" /\ Head(ops).kind = "UpdateRefcount")
      ]_vars

\* A delete operation has come to its turn while the receipt key is stored.
C18_Witness ==
    /\ AtOp /\ Head(ops).kind \in DeleteKinds /\ IsSome(ext[R1Path])

\* An Insert has its turn in FilesystemArchiver::write of a debug build.
InsertTurn == pc = "fs" /\ debug /\ Head(ops).kind = "Insert"
\* The file of the operation at its turn.
TurnPath == Unwrap(fs_get_path(Head(ops).col, Head(ops).key))

\* C19: in a debug build, Insert(col, key, v) at its turn in
\* FilesystemArchiver::write leaves every file as it is and ends the call,
\* with a panic unless opening the file failed, when the file holds bytes
\* other than v; when there is no file or it holds v, the step writes v to
\* it and goes on, unless the file system fails.
C19_InsertNoOverwrite ==
    [][ InsertTurn =>
           IF IsSome(ext[TurnPath]) /\ ext[TurnPath] # Some(Head(ops).value)
           THEN /\ ext' = ext
                /\ \/ pc' = "aborted" /\ last'.res = "panic"
                   \/ pc' = "idle" /\ last'.res = "err" /\ last'.io
           ELSE ~last'.io =>
                   /\ ext' = [ext EXCEPT ![TurnPath] = Some(Head(ops).value)]
                   /\ pc' # "aborted"
                   /\ pc' = "idle" => last'.res = "ok"
      ]_vars

\* An Insert has its turn on a key that holds other bytes than its value.
C19_Witness ==
    InsertTurn /\ IsSome(ext[TurnPath]) /\ ext[TurnPath] # Some(Head(ops).value)

(***************************************************************************)
(* The path of a (column, key).                                            *)
(***************************************************************************)
\* C20: get_path of two cold columns c1, c2 and keys k1, k2 of any length,
\* the empty key included, returns for each the directory name of the column
\* followed by the base-58 text of the key, no path empty, and two different
\* paths when (c1, k1) and (c2, k2) differ.
C20_PathsInjective ==
    (last.op = "get_path" /\ IsCold(last.arg[1]) /\ IsCold(last.arg[3])) =>
        /\ last.res = "ok"
        /\ \A i \in {1, 2} :
              /\ last.val[i] # <<>>
              /\ last.val[i][1] = ColumnDirName(last.arg[2 * i - 1])
              /\ last.val[i][1] # ""
              /\ Len(last.val[i]) = IF last.arg[2 * i] = <<>> THEN 1 ELSE 2
        /\ <<last.arg[1], last.arg[2]>> # <<last.arg[3], last.arg[4]>>
              => last.val[1] # last.val[2]

\* The paths of the empty key and of a key of one zero byte, in one column.
C20_Witness ==
    /\ last.op = "get_path" /\ last.res = "ok"
    /\ last.arg = <<"Receipts", <<>>, "Receipts", <<0>>>>

(***************************************************************************)
(* Opening.                                                                *)
(***************************************************************************)
\* C21: cold_column_dirname returns Some for every column that is cold or is
\* BlockMisc, and open of an ArchivalStore does not panic unless the ColdDB
\* it is to store in is missing.
C21_DirnameTotal ==
    /\ (/\ last.op = "cold_column_dirname"
        /\ (IsCold(last.arg[1]) \/ last.arg[1] = "BlockMisc"))
          => IsSome(last.val)
    /\ (design = "ArchivalStore" /\ last.op = "open" /\ last.res = "panic")
          => (last.arg = <<"ColdDB", FALSE>>)

(***************************************************************************)
(* The bucket.                                                             *)
(***************************************************************************)
\* C22: a put of value at path that returned Ok leaves value in the object
\* named path, and no object of another name is changed by it.
C22_OneObjectPerPath ==
    [][ (last'.op = "put" /\ last'.res = "ok") =>
            /\ ext'[last'.arg[1]] = Some(last'.arg[2])
            /\ \A o \in DOMAIN ext : o # last'.arg[1] => ext'[o] = ext[o]
      ]_vars

(***************************************************************************)
(* write_to_external.                                                      *)
(***************************************************************************)
\* C23: while the operations of a transaction still to be applied to the
\* external storage hold an UpdateRefcount that is invalid (its operand
\* carries no raw value), nothing is put: the external storage is left as it is.
C23_ValidatedBeforeDispatch ==
    [][ (/\ pc = "external"
         /\ \E i \in 1..Len(ops) :
               /\ ops[i].kind = "UpdateRefcount"
               /\ ~IsSome(decode_value_with_rc(ops[i].value).raw))
            => ext' = ext
      ]_vars

\* C24: when write_to_external puts for an UpdateRefcount(col, key, operand),
\* the bytes it leaves at the path of (col, key) are the refcount merge of the
\* bytes stored there before with the operand.
C24_PutsMergedValue ==
    [][ (/\ pc = "external" /\ Head(ops).kind = "UpdateRefcount"
         /\ ext' # ext)
            => LET path == Unwrap(get_path(Head(ops).col, Head(ops).key))
               IN  ext'[path] = Some(refcount_merge(ext[path], Head(ops).value))
      ]_vars

(***************************************************************************)
(* The sync ColdDB.                                                        *)
(***************************************************************************)
\* C25: an ArchivalStore whose storage is the ColdDB has no sync ColdDB, and
\* a write or set_head on it that returns Ok leaves the ColdDB as one
\* application of the transaction leaves it.
C25_NoDoubleWrite ==
    [][ /\ storage = "ColdDB" => ~mirror
        /\ (/\ storage = "ColdDB" /\ pc = "idle"
            /\ last'.op \in {"write", "set_head"} /\ last'.res = "ok")
              => \E tx \in (IF last'.op = "set_head"
                            THEN {set_head_tx(last'.arg[1])} ELSE {<<o>> : o \in Ops}) :
                    cold' = ColdDbWrite(cold, tx).db
      ]_vars

\* A write of the receipt with refcount 1 to an absent key has returned Ok on
\* the ColdDB, which holds it with refcount 1.
C25_Witness ==
    /\ storage = "ColdDB" /\ last.op = "write" /\ last.res = "ok"
    /\ cold[<<"Receipts", R1>>] = Some(V1)
    /\ cold[<<"BlockMisc", HEAD_KEY>>] = None

\* C26: with an external storage and a sync ColdDB, a write or set_head in
\* which a write to the sync ColdDB returns an error (the call ends before
\* write_to_external is entered) returns Err, the process runs on, and the
\* external storage is as it was before the call.
C26_MirrorErrorNoPut ==
    [][ (/\ storage = "External" /\ mirror /\ pc = "idle"
         /\ last'.op \in {"write", "set_head"} /\ last'.io)
            => (last'.res = "err" /\ pc' = "idle" /\ ext' = ext)
      ]_vars

\* A write to two empty stores has returned Err and both are still empty:
\* the write to the sync ColdDB failed.
C26_Witness ==
    /\ storage = "External" /\ mirror
    /\ last.op = "write" /\ last.res = "err" /\ last.io
    /\ \A c \in Cells : cold[c] = None
    /\ \A q \in Paths : ext[q] = None

\* C27: write_to_external takes the operations in the order of the
\* transaction: a step puts the value of the first operation still to apply
\* at its path and nothing else, and goes on with the rest; a put that fails
\* changes nothing, returns Err from the call, and no operation after it is
\* applied.
C27_InOrderUntilFailure ==
    [][ pc = "external" =>
          LET op == Head(ops)
              path == Unwrap(get_path(op.col, op.key))
          IN  /\ ext' # ext => ext' = [ext EXCEPT ![path] = Some(op.value)]
              /\ pc' = "external" => (ops' = Tail(ops) /\ ext'[path] = Some(op.value))
              /\ last'.res = "err" =>
                    (ext' = ext /\ last'.io /\ pc' = "idle" /\ ops' = <<>>)
      ]_vars

\* A write has returned Err with the head bytes put and the receipt not: the
\* put of a later operation failed after the put of an earlier one.
C27_Witness ==
    /\ design = "ArchivalStore" /\ storage = "External"
    /\ last.op = "write" /\ last.res = "err" /\ last.io /\ pc = "idle"
    /\ ext[HeadPath] = Some(Garbage) /\ ext[R1Path] = None

(***************************************************************************)
(* set_head, then get_head.                                                *)
(***************************************************************************)
\* C28: in every configuration (ColdDB, external storage with and without
\* a sync ColdDB, Archiver), a get_head that is the next call after a
\* set_head(tip) that returned Ok, and meets no I/O error, returns Some(tip)
\* and the process runs on.
C28_SetHeadThenGetHead ==
    [][ (/\ pc = "idle" /\ last.op = "set_head" /\ last.res = "ok"
         /\ last'.op = "get_head" /\ ~last'.io)
            => (last'.res = "ok" /\ last'.val = Some(last.arg[1]) /\ pc' = "idle")
      ]_vars

\* get_head has returned the highest tip with an external storage and a sync
\* ColdDB, both holding that tip under both keys as set_head leaves them.
C28_Witness ==
    /\ storage = "External" /\ mirror /\ pc = "idle"
    /\ last.op = "get_head" /\ last.res = "ok" /\ last.val = Some(MaxTip)
    /\ cold[<<"BlockMisc", COLD_HEAD_KEY>>] = Some(BorshTip(MaxTip))
    /\ ext[ColdHeadPath] = Some(BorshTip(MaxTip))

(***************************************************************************)
(* Opening the archive directory again.                                    *)
(***************************************************************************)
\* C29: ArchivalStorageOpener::open with a Filesystem location, on a base
\* directory in which an earlier open made every column directory, and with
\* no system call failing for another reason, returns Ok, leaves every file
\* as it was, and yields a directory for every cold column and for BlockMisc.
C29_ReopenSucceeds ==
    [][ (/\ pc = "closed" /\ design = "Archiver" /\ OpenedDirs \subseteq dirs
         /\ last'.op = "open" /\ last'.arg[1] = "Filesystem" /\ ~last'.io)
            => /\ last'.res = "ok"
               /\ ext' = ext
               /\ ({c \in Cols : IsCold(c)} \cup {"BlockMisc"})
                     \subseteq DOMAIN Unwrap(last'.val)
      ]_vars

(***************************************************************************)
(* The streamer.                                                           *)
(***************************************************************************)
\* C30: in one run of start, the heights of the messages sent are strictly
\* increasing, last_synced_block_height never goes back, and every turn of
\* the for loop that is completed leaves it at the height of that turn,
\* whether the block was sent or skipped.
C30_HeightsIncrease ==
    [][ /\ \A i, j \in 1..Len(streamer'.sent) :
              i < j => streamer'.sent[i] < streamer'.sent[j]
        /\ IsSome(streamer.last_synced_block_height) =>
              /\ IsSome(streamer'.last_synced_block_height)
              /\ Unwrap(streamer'.last_synced_block_height)
                    >= Unwrap(streamer.last_synced_block_height)
        /\ (streamer.pc = "for" /\ streamer'.pc \in {"for", "main"}) =>
              streamer'.last_synced_block_height = Some(streamer.block_height)
      ]_vars

\* Two messages were sent and a later height was skipped: the last synced
\* height is above the height of the last message.
C30_Witness ==
    /\ Len(streamer.sent) = 2
    /\ IsSome(streamer.last_synced_block_height)
    /\ Unwrap(streamer.last_synced_block_height) > streamer.sent[2]

(***************************************************************************)
(* The lookup of a delayed local receipt.                                  *)
(***************************************************************************)
\* C31: lookup_delayed_local_receipt_in_previous_blocks walks back one block
\* at a time, returns the receipt of the first block that holds it, and
\* panics once LookupLimit previous blocks were examined without finding it:
\* it never examines more than LookupLimit blocks.
C31_AtMost1000 ==
    /\ lookup.pc # "none" =>
          /\ lookup.examined <= LookupLimit
          /\ lookup.prev_block_hash = lookup.examined + 1
    /\ lookup.result.res = "ok" =>
          /\ lookup.result.val \in lookup.holders
          /\ \A d \in lookup.holders : lookup.result.val <= d
    /\ lookup.msg = "limit" => lookup.examined = LookupLimit
====
